---- MODULE Spec2Model ----
(***************************************************************************)
(* Model of roadmap_ppt (src/src/roadmap_ppt/generator.py): the reader of  *)
(* the Objectives and Roadmap sheets and its temporary copies, the         *)
(* text-height estimator, the pagination and the geometry of the           *)
(* objectives and roadmap slides, the use of template slides and the order *)
(* in which generate_presentation builds the deck; and of                  *)
(* config_loader.py: the user configuration loaded at import.              *)
(*                                                                         *)
(* Lengths are python-pptx Length values, i.e. integers in EMU             *)
(* (914400 EMU = 1 inch, 12700 EMU = 1 point).  Font sizes are carried as  *)
(* their .pt value.  The float expressions of the source are evaluated     *)
(* exactly (as rationals) and truncated where the source calls int(); the  *)
(* rounding error of IEEE doubles, which can lower a truncated result by   *)
(* one unit, is not modelled.                                              *)
(***************************************************************************)
EXTENDS Integers, Sequences, FiniteSets, TLC

VARIABLES
    pc,               \* position in the run
    args,             \* the parsed command line (args.excel_file, args.output)
    workbook,         \* the file at args.excel_file on disk
    temp_dir,         \* the temporary directory used by copy_to_temp
    config_dir,       \* the directory ~/.roadmap_ppt and its config.py
    config_names,     \* the names the configuration module in use defines
    template,         \* the presentation file named by the template settings
    cfg,              \* the configuration module in use (config_loader.config)
    objectives_sheet, \* the "Objectives" sheet of the workbook
    roadmap_sheet,    \* the "Roadmap" sheet of the workbook
    objectives_data,  \* result of read_objectives
    roadmap_df,       \* result of read_roadmap
    slides,           \* prs.slides, in order
    output_file,      \* the file at output_path
    th                \* arguments and results of calculate_text_height calls

vars == <<pc, args, workbook, temp_dir, config_dir, config_names, template, cfg,
          objectives_sheet, roadmap_sheet, objectives_data,
          roadmap_df, slides, output_file, th>>

----------------------------------------------------------------------------
(* Units and python helpers                                                *)

\* Inches(n/10): tenths of an inch as a Length
Inches10(n) == n * 91440

\* Python None for an optional Length argument
None == -1

\* Python truthiness of an optional Length: None and 0 are falsy
Truthy(x) == x # None /\ x # 0

Max(a, b) == IF a >= b THEN a ELSE b

Min(a, b) == IF a <= b THEN a ELSE b

\* int(a / b) for integers a and b > 0: truncation toward zero
IntDiv(a, b) == IF a >= 0 THEN a \div b ELSE -((-a) \div b)

\* the outcome of a call that raised
Raised == -2

\* th when calculate_text_height is not under observation
NoCall == [a |-> 0, b |-> 0, width |-> 0, font |-> 18, min_height |-> None,
           max_height |-> None, height_a |-> None, height_b |-> None]

----------------------------------------------------------------------------
(* calculate_text_height                                                   *)

\* chars_per_line = int(width / Inches(1) * max(8, 12 * (18 / font_size.pt)))
\* max(8, 216/pt) = 8 * max(pt, 27) / pt and 914400 / 8 = 114300
chars_per_line(width, font_pt) ==
    IntDiv(width * Max(font_pt, 27), 114300 * font_pt)

\* estimated_lines with % in place of //
estimated_lines_mod(text_length, cpl) ==
    IntDiv(Max(1, (text_length % cpl) + 1) * 6, 5)

\* estimated_lines without the word-wrap buffer
estimated_lines_nobuffer(text_length, cpl) ==
    Max(1, (text_length \div cpl) + 1)

\* estimated_lines = max(1, text_length // chars_per_line + 1), then int(... * 1.2)
estimated_lines(text_length, cpl) ==
    IntDiv(Max(1, (text_length \div cpl) + 1) * 6, 5)

\* Inches(estimated_lines * (font_size.pt * 1.2 / 72)): 1.2 / 72 * 914400 = 15240
estimated_height(lines, font_pt) == lines * font_pt * 15240

\* the min/max constraints applied to a height
Clamp(h, min_height, max_height) ==
    LET h1 == IF Truthy(min_height) /\ h < min_height THEN min_height ELSE h
    IN  IF Truthy(max_height) /\ h1 > max_height THEN max_height ELSE h1

\* `if not text: return min_height or Inches(0.5)`
EmptyTextHeight(min_height) ==
    IF Truthy(min_height) THEN min_height ELSE Inches10(5)

\* text is represented by len(str(text)); the empty text has length 0
calculate_text_height(text_length, width, font_pt, min_height, max_height) ==
    IF text_length = 0 THEN EmptyTextHeight(min_height)
    ELSE LET cpl == chars_per_line(width, font_pt)
         IN  IF cpl = 0 THEN Raised   \* ZeroDivisionError in text_length // 0
             ELSE Clamp(estimated_height(estimated_lines(text_length, cpl), font_pt),
                        min_height, max_height)

----------------------------------------------------------------------------
(* Configuration (config.py); SLIDE_HEIGHT and KEY_ELEMENT_HEIGHT_ESTIMATE *)
(* are fields of cfg, the other settings have their default values         *)

SLIDE_WIDTH == Inches10(100)

CONTENT_TOP_MARGIN == Inches10(15)

SIDE_MARGIN == Inches10(5)

BOTTOM_MARGIN == Inches10(5)

BODY_FONT_SIZE == 18

NORTH_STAR_MIN_HEIGHT == Inches10(8)

NORTH_STAR_MAX_HEIGHT == Inches10(30)

TEXT_BOX_MARGIN == Inches10(2)

DefaultConfig ==
    [SLIDE_HEIGHT |-> Inches10(75), KEY_ELEMENT_HEIGHT_ESTIMATE |-> Inches10(5)]

----------------------------------------------------------------------------
(* Sheets: a sheet is its header row (columns) and its data rows; a blank  *)
(* cell is read by pandas as NaN                                           *)

NaN == "<NaN>"

\* len(str(text)) of the cell texts used as north star
LongNorthStar == "<a north star of 400 characters>"

TextLen(text) ==
    CASE text = "" -> 0
      [] text = "Be the best" -> 11
      [] text = LongNorthStar -> 400

\* the characters of the header texts in use
Chars(col) ==
    CASE col = "North star" -> <<"N", "o", "r", "t", "h", " ", "s", "t", "a", "r">>
      [] col = "NORTH STAR" -> <<"N", "O", "R", "T", "H", " ", "S", "T", "A", "R">>
      [] col = "North  Star " -> <<"N", "o", "r", "t", "h", " ", " ", "S", "t", "a", "r", " ">>
      [] col = " north star" -> <<" ", "n", "o", "r", "t", "h", " ", "s", "t", "a", "r">>
      [] col = "Key elements" -> <<"K", "e", "y", " ", "e", "l", "e", "m", "e", "n", "t", "s">>
      [] col = "KEY ELEMENTS" -> <<"K", "E", "Y", " ", "E", "L", "E", "M", "E", "N", "T", "S">>
      [] col = "key ELEMENTS " -> <<"k", "e", "y", " ", "E", "L", "E", "M", "E", "N", "T", "S", " ">>
      [] col = "Goal" -> <<"G", "o", "a", "l">>
      [] col = "Items" -> <<"I", "t", "e", "m", "s">>
      [] col = "Owner" -> <<"O", "w", "n", "e", "r">>
      [] col = "Timeline" -> <<"T", "i", "m", "e", "l", "i", "n", "e">>
      [] col = " TIMELINE " -> <<" ", "T", "I", "M", "E", "L", "I", "N", "E", " ">>
      [] col = "Phase" -> <<"P", "h", "a", "s", "e">>
      [] col = "Workpackage" -> <<"W", "o", "r", "k", "p", "a", "c", "k", "a", "g", "e">>
      [] col = "Work package" -> <<"W", "o", "r", "k", " ", "p", "a", "c", "k", "a", "g", "e">>
      [] col = "WORK PACKAGE" -> <<"W", "O", "R", "K", " ", "P", "A", "C", "K", "A", "G", "E">>
      [] col = "Step" -> <<"S", "t", "e", "p">>
      [] col = "Stage" -> <<"S", "t", "a", "g", "e">>
      [] col = "Task" -> <<"T", "a", "s", "k">>

UpperCase == <<"A", "B", "C", "D", "E", "F", "G", "H", "I", "J", "K", "L", "M", "N", "O", "P", "Q", "R", "S", "T", "U", "V", "W", "X", "Y", "Z">>

LowerCase == <<"a", "b", "c", "d", "e", "f", "g", "h", "i", "j", "k", "l", "m", "n", "o", "p", "q", "r", "s", "t", "u", "v", "w", "x", "y", "z">>

RECURSIVE lower(_)
\* str.lower() leaving every character as it is
lower_identity(chars) == chars

\* str.lower()
lower(chars) ==
    IF chars = <<>> THEN <<>>
    ELSE LET c == Head(chars)
         IN  <<IF \E k \in 1..26 : UpperCase[k] = c
               THEN LowerCase[CHOOSE k \in 1..26 : UpperCase[k] = c]
               ELSE c>> \o lower(Tail(chars))

RECURSIVE strip(_)
\* str.strip(): leading and trailing whitespace removed
strip(chars) ==
    IF chars = <<>> THEN <<>>
    ELSE IF Head(chars) = " " THEN strip(Tail(chars))
         ELSE IF chars[Len(chars)] = " " THEN strip(SubSeq(chars, 1, Len(chars) - 1))
              ELSE chars

\* `sub in text`
Contains(text, sub) ==
    \E i \in 0..(Len(text) - Len(sub)) : SubSeq(text, i + 1, i + Len(sub)) = sub

\* col_lower of a header: df.columns.str.strip(), then col.lower()
col_lower(col) == lower(strip(Chars(col)))

\* 'north' in col_lower and 'star' in col_lower
IsNorthStarHeader(col) ==
    /\ Contains(col_lower(col), <<"n", "o", "r", "t", "h">>)
    /\ Contains(col_lower(col), <<"s", "t", "a", "r">>)

\* 'key' in col_lower and 'element' in col_lower
IsKeyElementsHeader(col) ==
    /\ Contains(col_lower(col), <<"k", "e", "y">>)
    /\ Contains(col_lower(col), <<"e", "l", "e", "m", "e", "n", "t">>)

\* 'timeline' in col_lower
HasTimeline(col) == Contains(col_lower(col), <<"t", "i", "m", "e", "l", "i", "n", "e">>)

\* 'phase' in col_lower
HasPhase(col) == Contains(col_lower(col), <<"p", "h", "a", "s", "e">>)

\* 'workpackage' in col_lower or 'work package' in col_lower
HasWorkpackage(col) ==
    \/ Contains(col_lower(col), <<"w", "o", "r", "k", "p", "a", "c", "k", "a", "g", "e">>)
    \/ Contains(col_lower(col), <<"w", "o", "r", "k", " ", "p", "a", "c", "k", "a", "g", "e">>)

\* column positions are 1-based; 0 stands for None
NoCol == 0

RECURSIVE ObjectivesCols(_, _, _, _)
\* the loop `for col in df.columns` of read_objectives, from column i on
ObjectivesCols(columns, i, north_star_col, key_elements_col) ==
    IF i > Len(columns) THEN <<north_star_col, key_elements_col>>
    ELSE IF IsNorthStarHeader(columns[i])
         THEN ObjectivesCols(columns, i + 1, i, key_elements_col)
         ELSE IF IsKeyElementsHeader(columns[i])
              THEN ObjectivesCols(columns, i + 1, north_star_col, i)
              ELSE ObjectivesCols(columns, i + 1, north_star_col, key_elements_col)

\* the column of the rows, blank cells dropped: df[col].dropna().tolist()
RECURSIVE DropNaColumn(_, _)
DropNaColumn(rows, col) ==
    IF rows = <<>> THEN <<>>
    ELSE IF Head(rows)[col] = NaN THEN DropNaColumn(Tail(rows), col)
         ELSE <<Head(rows)[col]>> \o DropNaColumn(Tail(rows), col)

\* df.dropna(subset=[col]) dropping nothing
DropNaRowsKeepAll(rows, col) == rows

\* df.dropna(subset=[col])
DropNaRows(rows, col) == SelectSeq(rows, LAMBDA r : r[col] # NaN)

EmptyObjectives == [north_star |-> "", key_elements |-> <<>>]

SheetNames == {"Objectives", "Roadmap"}

\* a workbook file that exists, is a well-formed spreadsheet and has both sheets
GoodWorkbook == [exists |-> TRUE, valid |-> TRUE, sheets |-> SheetNames]

\* pd.read_excel raising for both sheets as soon as one worksheet is missing
ReadExcelRaisesAnySheet(file, sheet_name) ==
    ~file.exists \/ ~file.valid \/ file.sheets # SheetNames

\* pd.read_excel(temp_file, sheet_name=...) raises: no such file, not a
\* spreadsheet, or no worksheet of that name
ReadExcelRaises(file, sheet_name) ==
    ~file.exists \/ ~file.valid \/ sheet_name \notin file.sheets

\* north_star_col and key_elements_col after the positional fallback
ObjectivesColumns(columns) ==
    LET found == ObjectivesCols(columns, 1, NoCol, NoCol)
    IN  <<IF found[1] = NoCol THEN 1 ELSE found[1],
          IF found[2] = NoCol
          THEN (IF Len(columns) > 1 THEN 2 ELSE NoCol)
          ELSE found[2]>>

read_objectives(sheet) ==
    IF Len(sheet.columns) = 0 THEN EmptyObjectives   \* df.columns[0]: IndexError, caught
    ELSE
      LET north_star_col == ObjectivesColumns(sheet.columns)[1]
          key_elements_col == ObjectivesColumns(sheet.columns)[2]
          df == DropNaRows(sheet.rows, north_star_col)
      IN  [north_star |-> IF Len(df) > 0 THEN df[1][north_star_col] ELSE "",
           key_elements |-> IF key_elements_col # NoCol
                            THEN DropNaColumn(df, key_elements_col)
                            ELSE <<>>]

RECURSIVE RoadmapCols(_, _, _, _, _)
\* the loop `for col in df.columns` of read_roadmap, from column i on;
\* `a or b and c` is `a or (b and c)`
RoadmapCols(columns, i, timeline_col, phase_col, workpackage_col) ==
    IF i > Len(columns) THEN <<timeline_col, phase_col, workpackage_col>>
    ELSE IF HasTimeline(columns[i]) \/ (HasPhase(columns[i]) /\ timeline_col = NoCol)
         THEN RoadmapCols(columns, i + 1, i, phase_col, workpackage_col)
         ELSE IF HasPhase(columns[i]) /\ phase_col = NoCol
              THEN RoadmapCols(columns, i + 1, timeline_col, i, workpackage_col)
              ELSE IF HasWorkpackage(columns[i])
                   THEN RoadmapCols(columns, i + 1, timeline_col, phase_col, i)
                   ELSE RoadmapCols(columns, i + 1, timeline_col, phase_col,
                                    workpackage_col)

\* one row of result_df
RoadmapEntry(row, timeline_col, phase_col, workpackage_col) ==
    [Timeline |-> row[timeline_col],
     Phase |-> IF phase_col # NoCol THEN row[phase_col] ELSE "",
     Workpackage |-> IF workpackage_col # NoCol THEN row[workpackage_col] ELSE ""]

\* read_roadmap with the phase falling back to the first column
read_roadmap_phase_first(sheet) ==
    IF Len(sheet.columns) = 0 THEN <<>>
    ELSE
      LET found == RoadmapCols(sheet.columns, 1, NoCol, NoCol, NoCol)
          timeline_col == IF found[1] = NoCol THEN 1 ELSE found[1]
          phase_col == IF found[2] = NoCol THEN 1 ELSE found[2]
          workpackage_col ==
              IF found[3] = NoCol
              THEN (IF Len(sheet.columns) > 2 THEN 3 ELSE NoCol)
              ELSE found[3]
          df == DropNaRows(sheet.rows, timeline_col)
      IN  [i \in 1..Len(df) |->
              RoadmapEntry(df[i], timeline_col, phase_col, workpackage_col)]

read_roadmap(sheet) ==
    IF Len(sheet.columns) = 0 THEN <<>>              \* df.columns[0]: IndexError, caught
    ELSE
      LET found == RoadmapCols(sheet.columns, 1, NoCol, NoCol, NoCol)
          timeline_col == IF found[1] = NoCol THEN 1 ELSE found[1]
          phase_col ==
              IF found[2] = NoCol
              THEN (IF Len(sheet.columns) > 1 THEN 2 ELSE NoCol)
              ELSE found[2]
          workpackage_col ==
              IF found[3] = NoCol
              THEN (IF Len(sheet.columns) > 2 THEN 3 ELSE NoCol)
              ELSE found[3]
          df == DropNaRows(sheet.rows, timeline_col)
      IN  [i \in 1..Len(df) |->
              RoadmapEntry(df[i], timeline_col, phase_col, workpackage_col)]

----------------------------------------------------------------------------
(* Temporary copies of the input file                                      *)

\* a temporary directory in which nothing fails and nothing is left over:
\* whether NamedTemporaryFile, shutil.copy2 and os.remove succeed there, and
\* the number of temporary files of this program on disk
GoodTempDir == [create_ok |-> TRUE, copy_ok |-> TRUE, remove_ok |-> TRUE, files |-> 0]

\* copy_to_temp: the path handed to pd.read_excel and the temporary
\* directory afterwards.  NamedTemporaryFile(delete=False) creates the file
\* before shutil.copy2 runs; `except Exception` returns the original path
copy_to_temp(file, dir) ==
    IF ~dir.create_ok
    THEN [path |-> "original", dir |-> dir]
    ELSE IF ~(file.exists /\ dir.copy_ok)
         THEN [path |-> "original", dir |-> [dir EXCEPT !.files = @ + 1]]
         ELSE [path |-> "temp", dir |-> [dir EXCEPT !.files = @ + 1]]

\* the finally block of read_objectives and read_roadmap: the temporary
\* directory after `if temp_file != excel_file and os.path.exists(temp_file)`
\* and os.remove, whose failure is caught
remove_temp(copy) ==
    IF copy.path # "original" /\ copy.dir.remove_ok
    THEN [copy.dir EXCEPT !.files = @ - 1]
    ELSE copy.dir

----------------------------------------------------------------------------
(* config_loader: the user configuration                                   *)

\* the settings of the built-in config.py
AllSettings ==
    {"BRAND_PRIMARY_COLOR", "BRAND_SECONDARY_COLOR", "BRAND_ACCENT_COLOR",
     "BRAND_TEXT_COLOR", "BRAND_BACKGROUND_COLOR", "LOGO_PATH", "LOGO_POSITION",
     "TITLE_FONT_NAME", "BODY_FONT_NAME", "TITLE_FONT_SIZE", "SUBTITLE_FONT_SIZE",
     "HEADING_FONT_SIZE", "BODY_FONT_SIZE", "SLIDE_WIDTH", "SLIDE_HEIGHT",
     "TITLE_TOP_MARGIN", "CONTENT_TOP_MARGIN", "SIDE_MARGIN", "BOTTOM_MARGIN",
     "USE_SHAPES", "SHAPE_CORNER_RADIUS", "CONTENT_BOX_COLOR",
     "KEY_ELEMENT_HEIGHT_ESTIMATE", "NORTH_STAR_MIN_HEIGHT", "NORTH_STAR_MAX_HEIGHT",
     "TEXT_BOX_MARGIN", "CHARS_PER_LINE_ESTIMATE", "TITLE_SLIDE_TEMPLATE",
     "CONTENT_SLIDE_TEMPLATE", "TEMPLATE_SLIDE_INDEX", "OVERVIEW_TIMELINE_SHAPE_COLOR",
     "OVERVIEW_TIMELINE_TEXT_COLOR", "OVERVIEW_CHEVRON_COLOR", "OVERVIEW_SHAPE_HEIGHT",
     "OVERVIEW_SHAPE_WIDTH", "OVERVIEW_CHEVRON_WIDTH", "OVERVIEW_CHEVRON_HEIGHT"}

\* the settings generate_presentation reads for prs.slide_width and
\* prs.slide_height
PresentationSettings == {"SLIDE_WIDTH", "SLIDE_HEIGHT"}

\* the settings create_title_slide reads on every path
TitleSettings ==
    {"TITLE_SLIDE_TEMPLATE", "TEMPLATE_SLIDE_INDEX", "LOGO_PATH", "SIDE_MARGIN",
     "TITLE_TOP_MARGIN", "SLIDE_WIDTH", "TITLE_FONT_NAME", "TITLE_FONT_SIZE",
     "BRAND_PRIMARY_COLOR"}

\* the settings create_objectives_slide reads on every path
ObjectivesSettings ==
    {"SLIDE_HEIGHT", "CONTENT_TOP_MARGIN", "BOTTOM_MARGIN",
     "KEY_ELEMENT_HEIGHT_ESTIMATE", "CONTENT_SLIDE_TEMPLATE", "TEMPLATE_SLIDE_INDEX",
     "LOGO_PATH", "SIDE_MARGIN", "SLIDE_WIDTH", "TITLE_FONT_NAME",
     "HEADING_FONT_SIZE", "BRAND_PRIMARY_COLOR"}

\* the settings create_timeline_overview_slide reads once the data frame
\* is not empty
OverviewSettings ==
    {"CONTENT_SLIDE_TEMPLATE", "TEMPLATE_SLIDE_INDEX", "LOGO_PATH", "SIDE_MARGIN",
     "SLIDE_WIDTH", "TITLE_FONT_NAME", "HEADING_FONT_SIZE", "BRAND_PRIMARY_COLOR",
     "OVERVIEW_SHAPE_WIDTH", "OVERVIEW_SHAPE_HEIGHT", "CONTENT_TOP_MARGIN",
     "OVERVIEW_TIMELINE_SHAPE_COLOR", "OVERVIEW_TIMELINE_TEXT_COLOR", "BODY_FONT_NAME"}

\* the settings create_roadmap_slides reads once the data frame is not empty
RoadmapSettings ==
    {"SLIDE_HEIGHT", "CONTENT_TOP_MARGIN", "BOTTOM_MARGIN", "SLIDE_WIDTH",
     "SIDE_MARGIN", "CONTENT_SLIDE_TEMPLATE", "TEMPLATE_SLIDE_INDEX", "LOGO_PATH",
     "TITLE_FONT_NAME", "HEADING_FONT_SIZE", "BRAND_PRIMARY_COLOR"}

\* no file at ~/.roadmap_ppt/config.py
NoConfigFile ==
    [exists |-> FALSE, readable |-> FALSE, evaluates |-> FALSE, defines |-> {}]

\* the copy of the built-in config.py that create_default_config writes:
\* whether open() and read() succeed, whether exec() of the text succeeds,
\* and the names the text defines
DefaultConfigFile ==
    [exists |-> TRUE, readable |-> TRUE, evaluates |-> TRUE, defines |-> AllSettings]

\* ~/.roadmap_ppt holding a copy of the built-in configuration
GoodConfigDir == [writable |-> TRUE, file |-> DefaultConfigFile]

\* create_default_config: os.makedirs and shutil.copy2 raise in a directory
\* that cannot be written; the file is copied only when it does not exist
create_default_config(dir) ==
    [raised |-> ~dir.writable /\ ~dir.file.exists,
     dir |-> IF dir.writable /\ ~dir.file.exists
             THEN [dir EXCEPT !.file = DefaultConfigFile]
             ELSE dir]

\* load_config replacing a user file it could not read or evaluate by the
\* built-in one
load_config_repair(dir) ==
    LET created == IF ~dir.file.exists
                   THEN create_default_config(dir)
                   ELSE [raised |-> FALSE, dir |-> dir]
        file == created.dir.file
        usable == file.exists /\ file.readable /\ file.evaluates
    IN  [raised |-> created.raised,
         dir |-> IF created.raised \/ usable THEN created.dir
                 ELSE [created.dir EXCEPT !.file = DefaultConfigFile],
         names |-> IF created.raised THEN {}
                   ELSE IF usable THEN file.defines ELSE AllSettings]

\* load_config: whether it raised, the configuration directory afterwards
\* and the names of the module returned.  create_default_config is called
\* outside the try block; a file that is read and evaluated becomes the
\* configuration by itself, any failure there returns the built-in module
load_config(dir) ==
    LET created == IF ~dir.file.exists
                   THEN create_default_config(dir)
                   ELSE [raised |-> FALSE, dir |-> dir]
        file == created.dir.file
    IN  [raised |-> created.raised,
         dir |-> created.dir,
         names |-> IF created.raised THEN {}
                   ELSE IF file.exists /\ file.readable /\ file.evaluates
                        THEN file.defines
                        ELSE AllSettings]

----------------------------------------------------------------------------
(* Slide composer                                                          *)

\* a path: its directory part, the file name without extension, the extension
RoadmapXlsx == [dir |-> "", name |-> "roadmap", ext |-> ".xlsx"]

\* os.path.basename(path)
basename(path) == [path EXCEPT !.dir = ""]

\* os.path.splitext(path): the path up to the extension, and the extension
splitext(path) == <<path.dir \o path.name, path.ext>>

\* the title taken from the path as given, directory included
excel_filename_with_dir(excel_file) == splitext(excel_file)[1]

\* excel_filename = os.path.splitext(os.path.basename(excel_file))[0]
excel_filename(excel_file) == splitext(basename(excel_file))[1]

NoFile == [exists |-> FALSE, path |-> "", slides |-> <<>>]

\* args.output when -o/--output is not given (default=None)
NoOutput == ""

\* output_path = f"{os.path.splitext(excel_file)[0]}.pptx" unless given
output_path(a) ==
    IF a.output = NoOutput THEN splitext(a.excel_file)[1] \o ".pptx" ELSE a.output

\* a slide of the deck: its kind, its title text, its page number and page
\* count (the title carries "(Page page of of)" when of > 1), the north star
\* text shown, whether the "Key Elements" heading is shown, the bullet
\* items, the overview blocks, the phase columns and the shapes copied from
\* the template slide
Slide(kind, title, page, of, north_star, heading, bullets, blocks, columns) ==
    [kind |-> kind, title |-> title, page |-> page, of |-> of,
     north_star |-> north_star, heading |-> heading, bullets |-> bullets,
     blocks |-> blocks, columns |-> columns, template_shapes |-> <<>>]

\* no template configured: TITLE_SLIDE_TEMPLATE = CONTENT_SLIDE_TEMPLATE = None
NoTemplate == [configured |-> {}, loads |-> FALSE, shapes |-> <<>>]

\* load_template_slide: TRUE when a template presentation is returned, FALSE
\* when None is (no path configured, no such file, the file does not load,
\* or it has no slide at TEMPLATE_SLIDE_INDEX)
load_template_slide(t, which) == which \in t.configured /\ t.loads

RECURSIVE CopyShapes(_, _)
\* the loop `for shape in template_slide.shapes` of
\* create_slide_from_template, by the kind of the shape:
\*   "picture", "text"  copied;
\*   "bad_picture"      add_picture raises inside the try: skipped;
\*   "text_partial"     the detailed copy raises after add_textbox: the
\*                      fallback adds a second text box;
\*   "other"            neither .image nor .text: not copied;
\*   "linked_picture"   hasattr(shape, 'image') raises ValueError outside
\*                      the inner try: the outer handler returns None
CopyShapes(shapes, copied) ==
    IF shapes = <<>> THEN [returned |-> TRUE, shapes |-> copied]
    ELSE LET shape == Head(shapes)
         IN  CASE shape.kind \in {"picture", "text"} ->
                      CopyShapes(Tail(shapes), Append(copied, shape.id))
               [] shape.kind \in {"bad_picture", "other"} ->
                      CopyShapes(Tail(shapes), copied)
               [] shape.kind = "text_partial" ->
                      CopyShapes(Tail(shapes), copied \o <<shape.id, shape.id>>)
               [] shape.kind = "linked_picture" ->
                      [returned |-> FALSE, shapes |-> copied]

\* create_slide_from_template: whether a slide is returned, and the shapes
\* on the slide that prs.slides.add_slide added before the copying
create_slide_from_template(t) == CopyShapes(t.shapes, <<>>)

\* the slide that create_slide_from_template added and then gave up
AbandonedSlide(shapes) ==
    [Slide("abandoned", "", 1, 1, "", FALSE, <<>>, <<>>, <<>>)
        EXCEPT !.template_shapes = shapes]

RECURSIVE from_template(_, _, _)
\* the slides a composer adds for the slides it intends: for each one,
\* `template_prs = load_template_slide(...)`, then the slide copied from the
\* template, or a blank one when there is no template or
\* create_slide_from_template returned None
from_template(t, which, new_slides) ==
    IF new_slides = <<>> THEN <<>>
    ELSE LET copy == create_slide_from_template(t)
             placed ==
                 IF ~load_template_slide(t, which) THEN <<Head(new_slides)>>
                 ELSE IF copy.returned
                      THEN <<[Head(new_slides) EXCEPT !.template_shapes = copy.shapes]>>
                      ELSE <<AbandonedSlide(copy.shapes), Head(new_slides)>>
         IN  placed \o from_template(t, which, Tail(new_slides))

\* key_elements[start:end] for 0 <= start
Slice(list, start, end) == SubSeq(list, start + 1, Min(end, Len(list)))

create_title_slide(data, title) ==
    <<Slide("title", title, 1, 1, data.north_star, FALSE, <<>>, <<>>, <<>>)>>

\* available_height of create_objectives_slide
ObjectivesAvailableHeight(config, data) ==
    LET box_width == SLIDE_WIDTH - (2 * SIDE_MARGIN) - (2 * TEXT_BOX_MARGIN)
        north_star_height ==
            calculate_text_height(TextLen(data.north_star), box_width, BODY_FONT_SIZE,
                                  NORTH_STAR_MIN_HEIGHT, NORTH_STAR_MAX_HEIGHT)
        space_after_north_star ==
            IF data.north_star # ""
            THEN Inches10(12) + north_star_height + Inches10(3)
            ELSE 0
    IN  config.SLIDE_HEIGHT - Inches10(5) - Inches10(8) - space_after_north_star
            - Inches10(6) - Inches10(8) - BOTTOM_MARGIN

\* items_per_slide = max(1, int(available_height / item_height))
ItemsPerSlide(available_height, item_height) ==
    Max(1, IntDiv(available_height, item_height))

\* slides_needed rounding down
SlidesNeededFloor(total, items_per_slide) ==
    IF total > 0 THEN Max(1, total \div items_per_slide) ELSE 1

\* slides_needed without the minimum of one slide
SlidesNeededNoMin(total, items_per_slide) ==
    (total + items_per_slide - 1) \div items_per_slide

\* slides_needed = max(1, (total + items_per_slide - 1) // items_per_slide)
\*                 if total > 0 else 1
SlidesNeeded(total, items_per_slide) ==
    IF total > 0 THEN Max(1, (total + items_per_slide - 1) \div items_per_slide) ELSE 1

\* the items of slide slide_num: list[start_idx:end_idx]
ItemsForSlide(list, slide_num, items_per_slide) ==
    LET start_idx == slide_num * items_per_slide
        end_idx == Min(start_idx + items_per_slide, Len(list))
    IN  Slice(list, start_idx, end_idx)

ObjectivesItemsPerSlide(config, data) ==
    ItemsPerSlide(ObjectivesAvailableHeight(config, data),
                  config.KEY_ELEMENT_HEIGHT_ESTIMATE)

create_objectives_slide(config, data) ==
    LET key_elements == data.key_elements
        items_per_slide == ObjectivesItemsPerSlide(config, data)
        total_elements == Len(key_elements)
        slides_needed == SlidesNeeded(total_elements, items_per_slide)
    IN  [n \in 1..slides_needed |->
            Slide("objectives", "Objectives", n, slides_needed,
                  IF n = 1 THEN data.north_star ELSE "",
                  total_elements > 0,
                  IF total_elements > 0
                  THEN ItemsForSlide(key_elements, n - 1, items_per_slide)
                  ELSE <<>>,
                  <<>>, <<>>)]

----------------------------------------------------------------------------
(* Grouping (pandas groupby) and the overview and roadmap slides           *)

\* the texts of the timeline and phase cells in Python's string order
SortOrder == <<"", "Build", "Design", "Launch", "Q1", "Q2", "Q3">>

KeyRank(key) == CHOOSE i \in 1..Len(SortOrder) : SortOrder[i] = key

RECURSIVE Unique(_)
\* the distinct values of a list in order of first appearance: Series.unique()
Unique(list) ==
    IF list = <<>> THEN <<>>
    ELSE LET front == Unique(SubSeq(list, 1, Len(list) - 1))
             last == list[Len(list)]
         IN  IF \E i \in 1..Len(front) : front[i] = last
             THEN front ELSE Append(front, last)

RECURSIVE SortKeys(_)
\* the keys of a set in ascending order
SortKeys(keys) ==
    IF keys = {} THEN <<>>
    ELSE LET first == CHOOSE k \in keys : \A o \in keys : KeyRank(k) <= KeyRank(o)
         IN  <<first>> \o SortKeys(keys \ {first})

Range(list) == {list[i] : i \in 1..Len(list)}

Column(df, name) == [i \in 1..Len(df) |-> df[i][name]]

DropNa(list) == SelectSeq(list, LAMBDA v : v # NaN)

\* the group keys of df.groupby(name, sort=False): first appearance, NaN dropped
GroupKeysUnsorted(df, name) == Unique(DropNa(Column(df, name)))

\* the group keys of df.groupby(name): sorted, NaN dropped
GroupKeys(df, name) == SortKeys(Range(DropNa(Column(df, name))))

\* the rows of one group, in row order
Group(df, name, key) == SelectSeq(df, LAMBDA r : r[name] = key)

\* `phase and str(phase).strip()`
PhaseShown(phase) == phase # NaN /\ phase # ""

\* timeline_phase_items of one timeline group
OverviewItems(timeline, group) ==
    LET phases == Unique(DropNa(Column(group, "Phase")))
    IN  IF Len(phases) > 0
        THEN LET shown == SelectSeq(phases, PhaseShown)
             IN  [i \in 1..Len(shown) |-> [timeline |-> timeline, phase |-> shown[i]]]
        ELSE <<[timeline |-> timeline, phase |-> NaN]>>

RECURSIVE OverviewItemsAll(_, _)
OverviewItemsAll(df, timelines) ==
    IF timelines = <<>> THEN <<>>
    ELSE OverviewItems(Head(timelines), Group(df, "Timeline", Head(timelines)))
            \o OverviewItemsAll(df, Tail(timelines))

\* create_timeline_overview_slide without the early return on an empty roadmap
create_timeline_overview_slide_noguard(df) ==
    <<Slide("overview", "Roadmap Overview", 1, 1, "", FALSE, <<>>,
            OverviewItemsAll(df, GroupKeysUnsorted(df, "Timeline")), <<>>)>>

create_timeline_overview_slide(df) ==
    IF df = <<>> THEN <<>>
    ELSE <<Slide("overview", "Roadmap Overview", 1, 1, "", FALSE, <<>>,
                 OverviewItemsAll(df, GroupKeysUnsorted(df, "Timeline")), <<>>)>>

RECURSIVE Reverse(_)
Reverse(list) ==
    IF list = <<>> THEN <<>> ELSE Append(Reverse(Tail(list)), Head(list))

\* phase_data_list with the workpackages of every phase in reverse row order
PhaseDataListReversed(group, phases) ==
    [i \in 1..Len(phases) |->
        [phase |-> phases[i],
         workpackages |->
            Reverse(DropNa(Column(Group(group, "Phase", phases[i]), "Workpackage")))]]

\* phase_data_list of one timeline group
PhaseDataList(group, phases) ==
    [i \in 1..Len(phases) |->
        [phase |-> phases[i],
         workpackages |-> DropNa(Column(Group(group, "Phase", phases[i]), "Workpackage"))]]

RECURSIVE MaxItems(_)
\* max([pd['total_items'] for pd in phase_data_list], default=0)
MaxItems(phase_data_list) ==
    IF phase_data_list = <<>> THEN 0
    ELSE Max(Len(Head(phase_data_list).workpackages), MaxItems(Tail(phase_data_list)))

\* items_per_slide of create_roadmap_slides
RoadmapItemsPerSlide(config) ==
    LET MAX_CONTENT_HEIGHT == config.SLIDE_HEIGHT - CONTENT_TOP_MARGIN - BOTTOM_MARGIN
        available_height == MAX_CONTENT_HEIGHT - Inches10(7)
    IN  ItemsPerSlide(available_height, Inches10(5))

\* slides_needed from the first phase column only
RoadmapSlidesNeededFirst(phase_data_list, items_per_slide) ==
    IF phase_data_list = <<>> THEN 1
    ELSE Max(1, (Len(phase_data_list[1].workpackages) + items_per_slide - 1)
                    \div items_per_slide)

\* slides_needed = max(1, (max_items_any_phase + items_per_slide - 1) // items_per_slide)
RoadmapSlidesNeeded(phase_data_list, items_per_slide) ==
    Max(1, (MaxItems(phase_data_list) + items_per_slide - 1) \div items_per_slide)

\* max_width: the usable width divided by num_phases when num_phases > 1 (the
\* usable width, 9 in, divides evenly by the column counts in use)
MaxWidth(num_phases) ==
    IF num_phases > 1
    THEN (SLIDE_WIDTH - (2 * SIDE_MARGIN)) \div num_phases
    ELSE SLIDE_WIDTH - (2 * SIDE_MARGIN)

\* x_pos of the phase column phase_idx (counted from 0)
x_pos(phase_idx, max_width) == SIDE_MARGIN + (phase_idx * max_width) + Inches10(1)

\* box_width = max_width - Inches(0.2)
box_width(max_width) == max_width - Inches10(2)

\* y_pos_phase: PHASE_HEADER_HEIGHT below y_pos when the phase header is shown
y_pos_phase(phase) ==
    IF PhaseShown(phase) THEN CONTENT_TOP_MARGIN + Inches10(7) ELSE CONTENT_TOP_MARGIN

\* content_height without the cap at MAX_CONTENT_HEIGHT
content_height_uncapped(config, y, num_items) ==
    Max(Inches10(3), num_items * Inches10(5) + Inches10(3))

\* content_height of the content box of num_items items that starts at y
content_height(config, y, num_items) ==
    LET MAX_CONTENT_HEIGHT == config.SLIDE_HEIGHT - CONTENT_TOP_MARGIN - BOTTOM_MARGIN
    IN  Min(MAX_CONTENT_HEIGHT - (y - CONTENT_TOP_MARGIN),
            Max(Inches10(3), num_items * Inches10(5) + Inches10(3)))

\* the part of a phase column shown on slide slide_num (counted from 0):
\* the phase title, when the phase has a name, and the content box, when
\* items_for_this_slide is not empty (content_height is None otherwise)
PhaseColumn(config, phase_info, phase_idx, max_width, slide_num, items_per_slide) ==
    LET items_for_this_slide ==
            IF slide_num * items_per_slide < Len(phase_info.workpackages)
            THEN ItemsForSlide(phase_info.workpackages, slide_num, items_per_slide)
            ELSE <<>>
    IN  [phase |-> phase_info.phase,
         header |-> PhaseShown(phase_info.phase),
         max_width |-> max_width,
         x_pos |-> x_pos(phase_idx, max_width),
         box_width |-> box_width(max_width),
         y_pos_phase |-> y_pos_phase(phase_info.phase),
         content_height |->
             IF items_for_this_slide # <<>>
             THEN content_height(config, y_pos_phase(phase_info.phase),
                                 Len(items_for_this_slide))
             ELSE None,
         items |-> items_for_this_slide]

\* the slides of one timeline
TimelineSlides(config, timeline, group, phases) ==
    LET phase_data_list == PhaseDataList(group, phases)
        items_per_slide == RoadmapItemsPerSlide(config)
        slides_needed == RoadmapSlidesNeeded(phase_data_list, items_per_slide)
    IN  [n \in 1..slides_needed |->
            Slide("roadmap", "Roadmap: " \o timeline, n, slides_needed, "", FALSE, <<>>,
                  <<>>,
                  [c \in 1..Len(phase_data_list) |->
                      PhaseColumn(config, phase_data_list[c], c - 1,
                                  MaxWidth(Len(phases)), n - 1, items_per_slide)])]

RECURSIVE RoadmapSlides(_, _, _)
RoadmapSlides(config, df, timelines) ==
    IF timelines = <<>> THEN <<>>
    ELSE LET group == Group(df, "Timeline", Head(timelines))
         IN  TimelineSlides(config, Head(timelines), group, GroupKeys(group, "Phase"))
                \o RoadmapSlides(config, df, Tail(timelines))

\* create_roadmap_slides building the slides of the first timeline only
create_roadmap_slides_first(config, df) ==
    IF df = <<>> THEN <<>>
    ELSE RoadmapSlides(config, df, SubSeq(GroupKeys(df, "Timeline"), 1, 1))

create_roadmap_slides(config, df) ==
    IF df = <<>> THEN <<>>
    ELSE RoadmapSlides(config, df, GroupKeys(df, "Timeline"))

----------------------------------------------------------------------------
(* generate_presentation: the steps of a run                               *)

\* `config = load_config()` when roadmap_ppt.config_loader is imported; an
\* exception there ends the program with a traceback
LoadConfig ==
    /\ pc = "import"
    /\ LET loaded == load_config(config_dir)
       IN  /\ pc' = IF loaded.raised THEN "import_error" ELSE "main"
           /\ config_dir' = loaded.dir
           /\ config_names' = loaded.names
    /\ UNCHANGED <<args, workbook, temp_dir, template, cfg, objectives_sheet, roadmap_sheet,
                   objectives_data, roadmap_df, slides, output_file, th>>

\* cli.main entering generate_presentation without validating the input file
MainNoCheck ==
    /\ pc = "main"
    /\ pc' = "read_objectives"
    /\ UNCHANGED <<args, workbook, temp_dir, config_dir, config_names, template, cfg,
                   objectives_sheet, roadmap_sheet, objectives_data,
                   roadmap_df, slides, output_file, th>>

\* cli.main after parse_args: the input file is validated, then
\* generate_presentation is entered
Main ==
    /\ pc = "main"
    /\ pc' = IF ~workbook.exists THEN "exit" ELSE "read_objectives"
    /\ UNCHANGED <<args, workbook, temp_dir, config_dir, config_names, template, cfg,
                   objectives_sheet, roadmap_sheet, objectives_data,
                   roadmap_df, slides, output_file, th>>

ReadObjectives ==
    /\ pc = "read_objectives"
    /\ pc' = "read_roadmap"
    /\ objectives_data' = IF ReadExcelRaises(workbook, "Objectives")
                          THEN EmptyObjectives   \* except Exception
                          ELSE read_objectives(objectives_sheet)
    /\ temp_dir' = remove_temp(copy_to_temp(workbook, temp_dir))
    /\ UNCHANGED <<args, workbook, config_dir, config_names, template, cfg,
                   objectives_sheet, roadmap_sheet, roadmap_df, slides,
                   output_file, th>>

ReadRoadmap ==
    /\ pc = "read_roadmap"
    /\ pc' = "title"
    /\ roadmap_df' = IF ReadExcelRaises(workbook, "Roadmap")
                     THEN <<>>                   \* except Exception
                     ELSE read_roadmap(roadmap_sheet)
    /\ temp_dir' = remove_temp(copy_to_temp(workbook, temp_dir))
    /\ UNCHANGED <<args, workbook, config_dir, config_names, template, cfg,
                   objectives_sheet, roadmap_sheet, objectives_data, slides,
                   output_file, th>>

\* prs = Presentation() with the configured slide size, then
\* create_title_slide.  Here and in the other composers a setting the
\* configuration module does not define raises AttributeError, which ends
\* the run before prs.save: the presentation in memory is lost
CreateTitleSlide ==
    /\ pc = "title"
    /\ IF (PresentationSettings \cup TitleSettings) \subseteq config_names
       THEN /\ pc' = "objectives"
            /\ slides' = slides \o from_template(template, "title",
                                create_title_slide(objectives_data,
                                                   excel_filename(args.excel_file)))
       ELSE /\ pc' = "crashed"                 \* AttributeError
            /\ slides' = slides
    /\ UNCHANGED <<args, workbook, temp_dir, config_dir, config_names, template, cfg,
                   objectives_sheet, roadmap_sheet, objectives_data, roadmap_df,
                   output_file, th>>

CreateObjectivesSlide ==
    /\ pc = "objectives"
    /\ IF ObjectivesSettings \subseteq config_names
       THEN /\ pc' = "overview"
            /\ slides' = slides \o from_template(template, "content",
                                create_objectives_slide(cfg, objectives_data))
       ELSE /\ pc' = "crashed"                 \* AttributeError
            /\ slides' = slides
    /\ UNCHANGED <<args, workbook, temp_dir, config_dir, config_names, template, cfg,
                   objectives_sheet, roadmap_sheet, objectives_data, roadmap_df,
                   output_file, th>>

CreateTimelineOverviewSlide ==
    /\ pc = "overview"
    /\ IF (roadmap_df = <<>>) \/ OverviewSettings \subseteq config_names
       THEN /\ pc' = "roadmap"
            /\ slides' = slides \o from_template(template, "content",
                                create_timeline_overview_slide(roadmap_df))
       ELSE /\ pc' = "crashed"                 \* AttributeError
            /\ slides' = slides
    /\ UNCHANGED <<args, workbook, temp_dir, config_dir, config_names, template, cfg,
                   objectives_sheet, roadmap_sheet, objectives_data, roadmap_df,
                   output_file, th>>

CreateRoadmapSlides ==
    /\ pc = "roadmap"
    /\ IF (roadmap_df = <<>>) \/ RoadmapSettings \subseteq config_names
       THEN /\ pc' = "save"
            /\ slides' = slides \o from_template(template, "content",
                                create_roadmap_slides(cfg, roadmap_df))
       ELSE /\ pc' = "crashed"                 \* AttributeError
            /\ slides' = slides
    /\ UNCHANGED <<args, workbook, temp_dir, config_dir, config_names, template, cfg,
                   objectives_sheet, roadmap_sheet, objectives_data, roadmap_df,
                   output_file, th>>

\* prs.save(output_path)
Save ==
    /\ pc = "save"
    /\ pc' = "done"
    /\ output_file' = [exists |-> TRUE, path |-> output_path(args), slides |-> slides]
    /\ UNCHANGED <<args, workbook, temp_dir, config_dir, config_names, template, cfg,
                   objectives_sheet, roadmap_sheet, objectives_data, roadmap_df,
                   slides, th>>

----------------------------------------------------------------------------
(* Workbooks                                                               *)

MaxObjRows == 3

MaxRoadRows == 3

\* the text of the key element cell of row i
KeText(i) ==
    CASE i = 1 -> "Speed" [] i = 2 -> "Quality" [] i = 3 -> "Trust"
      [] OTHER -> "Key element " \o ToString(i)

\* the text of the workpackage cell of row i
WpText(i) ==
    CASE i = 1 -> "Build A" [] i = 2 -> "Build B" [] i = 3 -> "Ship"
      [] OTHER -> "Workpackage " \o ToString(i)

Timelines == {"Q1", "Q2"}

Phases == {"Design", "Launch"}

\* the rows an Objectives sheet with two columns can have at row i
ObjectivesRowsAt(i) ==
    {<<ns, ke>> : ns \in {NaN, "Be the best"}, ke \in {NaN, KeText(i)}}

RECURSIVE ObjectivesRowLists(_)
ObjectivesRowLists(n) ==
    IF n = 0 THEN {<<>>}
    ELSE {Append(rows, row) : rows \in ObjectivesRowLists(n - 1), row \in ObjectivesRowsAt(n)}

\* the rows a Roadmap sheet with three columns can have at row i, the
\* timeline cell filled
RoadmapRowsAt(i) ==
    {<<t, p, w>> : t \in Timelines, p \in Phases \cup {NaN}, w \in {NaN, WpText(i)}}

RECURSIVE RoadmapRowLists(_)
RoadmapRowLists(n) ==
    IF n = 0 THEN {<<>>}
    ELSE {Append(rows, row) : rows \in RoadmapRowLists(n - 1), row \in RoadmapRowsAt(n)}

RoadmapSheets ==
    {[columns |-> <<"Timeline", "Phase", "Workpackage">>, rows |-> rows] :
        rows \in UNION {RoadmapRowLists(n) : n \in 0..MaxRoadRows}}

\* an Objectives sheet with a north star and a key element in each of three rows
FilledObjectivesSheet ==
    [columns |-> <<"North star", "Key elements">>,
     rows |-> <<<<"Be the best", "Speed">>, <<"Be the best", "Quality">>,
                <<"Be the best", "Trust">>>>]

----------------------------------------------------------------------------
(* Specification of create_objectives_slide on the objectives data that    *)
(* read_objectives can return, after the title slide was added             *)

MaxKeyElements == 50

ConfigHeights == {Inches10(75), Inches10(37), Inches10(30)}

ConfigEstimates == {Inches10(2), Inches10(5), Inches10(20)}

Configs ==
    [SLIDE_HEIGHT : ConfigHeights, KEY_ELEMENT_HEIGHT_ESTIMATE : ConfigEstimates]

\* n distinct key elements
KeyElements(n) == [i \in 1..n |-> "Key element " \o ToString(i)]

NoSheet == [columns |-> <<>>, rows |-> <<>>]

InitObjectives ==
    /\ pc = "objectives"
    /\ args = [excel_file |-> RoadmapXlsx, output |-> NoOutput]
    /\ workbook = GoodWorkbook
    /\ temp_dir = GoodTempDir
    /\ config_dir = GoodConfigDir
    /\ config_names = AllSettings
    /\ template = NoTemplate
    /\ cfg \in Configs
    /\ \E north_star \in {"", "Be the best", LongNorthStar}, n \in 0..MaxKeyElements :
          /\ north_star = "" => n = 0
          /\ objectives_data = [north_star |-> north_star, key_elements |-> KeyElements(n)]
    /\ slides = create_title_slide(objectives_data, excel_filename(args.excel_file))
    /\ objectives_sheet = NoSheet
    /\ roadmap_sheet = NoSheet
    /\ roadmap_df = <<>>
    /\ output_file = NoFile
    /\ th = NoCall

NextObjectives == CreateObjectivesSlide

SpecObjectives == InitObjectives /\ [][NextObjectives]_vars

SlidesOfKind(kind) == SelectSeq(slides, LAMBDA s : s.kind = kind)

RECURSIVE ConcatBullets(_)
ConcatBullets(ss) ==
    IF ss = <<>> THEN <<>> ELSE Head(ss).bullets \o ConcatBullets(Tail(ss))

ObjectivesBuilt == pc \in {"overview", "roadmap", "save", "done"}

\* C1: items_per_slide >= 1 and slides_needed >= 1; slide i shows
\* key_elements[i*items_per_slide : min((i+1)*items_per_slide, n)] and the slides'
\* items concatenated in slide order are the original list; 50 items at 10 per
\* slide give 5 slides, the 5th holding items 41-50.
C1_ObjectivesPagination ==
    ObjectivesBuilt =>
        LET S == SlidesOfKind("objectives")
            ke == objectives_data.key_elements
            ips == ObjectivesItemsPerSlide(cfg, objectives_data)
        IN  /\ ips >= 1
            /\ Len(S) >= 1
            /\ ConcatBullets(S) = ke
            /\ \A i \in 1..Len(S) :
                  /\ Len(S[i].bullets) <= ips
                  /\ \A k \in 1..Len(S[i].bullets) :
                        S[i].bullets[k] = ke[(i - 1) * ips + k]
                  /\ i < Len(S) => Len(S[i].bullets) = ips
            /\ (Len(ke) = 50 /\ ips = 10) =>
                  /\ Len(S) = 5
                  /\ S[5].bullets = [k \in 1..10 |-> ke[40 + k]]

\* 50 key elements were laid out 10 per slide
C1_Witness ==
    /\ ObjectivesBuilt
    /\ Len(objectives_data.key_elements) = 50
    /\ ObjectivesItemsPerSlide(cfg, objectives_data) = 10
    /\ Len(SlidesOfKind("objectives")) = 5

----------------------------------------------------------------------------
(* Specification of create_roadmap_slides on the roadmaps read from the    *)
(* Roadmap sheets, after the title, objectives and overview slides         *)

ConfigsRoadmap ==
    [SLIDE_HEIGHT : ConfigHeights, KEY_ELEMENT_HEIGHT_ESTIMATE : {Inches10(5)}]

InitRoadmap ==
    /\ pc = "roadmap"
    /\ args = [excel_file |-> RoadmapXlsx, output |-> NoOutput]
    /\ workbook = GoodWorkbook
    /\ temp_dir = GoodTempDir
    /\ config_dir = GoodConfigDir
    /\ config_names = AllSettings
    /\ template = NoTemplate
    /\ cfg \in ConfigsRoadmap
    /\ objectives_sheet = FilledObjectivesSheet
    /\ roadmap_sheet \in RoadmapSheets
    /\ objectives_data = read_objectives(objectives_sheet)
    /\ roadmap_df = read_roadmap(roadmap_sheet)
    /\ slides = create_title_slide(objectives_data, excel_filename(args.excel_file))
                    \o create_objectives_slide(cfg, objectives_data)
                    \o create_timeline_overview_slide(roadmap_df)
    /\ output_file = NoFile
    /\ th = NoCall

NextRoadmap == CreateRoadmapSlides \/ Save

SpecRoadmap == InitRoadmap /\ [][NextRoadmap]_vars

RoadmapBuilt == pc \in {"save", "done"}

\* the roadmap slides of a timeline, in deck order
SlidesOfTimeline(timeline) ==
    SelectSeq(slides, LAMBDA s : s.kind = "roadmap" /\ s.title = "Roadmap: " \o timeline)

\* the workpackages of the entries of a timeline and phase, in row order
WorkpackagesOf(timeline, phase) ==
    LET entries == SelectSeq(roadmap_df, LAMBDA r : r.Timeline = timeline /\ r.Phase = phase)
        filled == SelectSeq(entries, LAMBDA r : r.Workpackage # NaN)
    IN  [i \in 1..Len(filled) |-> filled[i].Workpackage]

\* ceil(n / per), at least 1
PagesFor(n, per) ==
    CHOOSE k \in 1..(n + 1) : k * per >= n /\ (k = 1 \/ (k - 1) * per < n)

RECURSIVE ConcatColumn(_, _)
\* the items of column c over the slides ss
ConcatColumn(ss, c) ==
    IF ss = <<>> THEN <<>> ELSE Head(ss).columns[c].items \o ConcatColumn(Tail(ss), c)

\* C2: a timeline gets as many slides as the column needing the most pages
\* (at least 1); slide i shows of every phase column its slice
\* [i*items_per_slide, min((i+1)*items_per_slide, len)), nothing once the
\* column is exhausted, and over the slides every column's workpackages appear
\* exactly once, in order.
C2_RoadmapPagination ==
    RoadmapBuilt =>
        \A t \in Timelines :
            LET S == SlidesOfTimeline(t)
                ips == RoadmapItemsPerSlide(cfg)
            IN  Len(S) > 0 =>
                  LET cols == S[1].columns
                      wps(c) == WorkpackagesOf(t, cols[c].phase)
                      pages == {PagesFor(Len(wps(c)), ips) : c \in 1..Len(cols)} \cup {1}
                  IN  /\ ips >= 1
                      /\ \A k \in pages : k <= Len(S)
                      /\ Len(S) \in pages
                      /\ \A n \in 1..Len(S) :
                            /\ S[n].page = n /\ S[n].of = Len(S)
                            /\ Len(S[n].columns) = Len(cols)
                            /\ \A c \in 1..Len(cols) :
                                  LET items == S[n].columns[c].items
                                  IN  /\ S[n].columns[c].phase = cols[c].phase
                                      /\ Len(items) =
                                            Max(0, Min(n * ips, Len(wps(c))) - (n - 1) * ips)
                                      /\ \A k \in 1..Len(items) :
                                            items[k] = wps(c)[(n - 1) * ips + k]
                      /\ \A c \in 1..Len(cols) : ConcatColumn(S, c) = wps(c)

\* a timeline with two slides on which one phase column shows nothing on the
\* second slide while another column still shows items
C2_Witness ==
    /\ RoadmapBuilt
    /\ \E t \in Timelines :
          LET S == SlidesOfTimeline(t)
          IN  /\ Len(S) = 2
              /\ Len(S[2].columns) = 2
              /\ \E c, d \in 1..2 :
                    /\ S[1].columns[c].items # <<>> /\ S[2].columns[c].items = <<>>
                    /\ S[2].columns[d].items # <<>>

RECURSIVE SlideTimelines(_)
\* the titles of the roadmap slides, in deck order
SlideTimelines(ss) ==
    IF ss = <<>> THEN <<>> ELSE <<Head(ss).title>> \o SlideTimelines(Tail(ss))

\* C10: the roadmap slides follow the timelines in order of first appearance
\* in the roadmap rows, and the phase columns of a timeline follow the phases
\* in order of first appearance in that timeline's rows.
C10_FirstAppearanceOrder ==
    RoadmapBuilt =>
        LET firstTimelines == Unique(Column(roadmap_df, "Timeline"))
        IN  /\ Unique(SlideTimelines(SlidesOfKind("roadmap")))
                = [i \in 1..Len(firstTimelines) |-> "Roadmap: " \o firstTimelines[i]]
            /\ \A t \in Timelines :
                  LET S == SlidesOfTimeline(t)
                      entries == SelectSeq(roadmap_df, LAMBDA r : r.Timeline = t)
                      firstPhases == Unique(DropNa(Column(entries, "Phase")))
                  IN  \A n \in 1..Len(S) :
                          [c \in 1..Len(S[n].columns) |-> S[n].columns[c].phase]
                              = firstPhases

\* the row of the Roadmap sheet whose workpackage cell holds the text wp
RowOf(wp) ==
    CHOOSE r \in 1..Len(roadmap_sheet.rows) : roadmap_sheet.rows[r][3] = wp

\* C11: in every phase column of every timeline, the workpackages shown over
\* the pages of the timeline, read page after page, come from rows of that
\* timeline and phase and stand in the order of their rows in the Roadmap sheet.
C11_StableGrouping ==
    RoadmapBuilt =>
        \A t \in Timelines :
            LET S == SlidesOfTimeline(t)
            IN  Len(S) > 0 =>
                  \A c \in 1..Len(S[1].columns) :
                      LET shown == ConcatColumn(S, c)
                      IN  /\ \A i \in 1..Len(shown) :
                                LET row == roadmap_sheet.rows[RowOf(shown[i])]
                                IN  row[1] = t /\ row[2] = S[1].columns[c].phase
                          /\ \A i, j \in 1..Len(shown) :
                                i < j => RowOf(shown[i]) < RowOf(shown[j])

\* a phase column shows the workpackage of row 1 on the first page and that of
\* row 3 on the second page, row 2 belonging to another phase of the timeline
C11_Witness ==
    /\ RoadmapBuilt
    /\ Len(roadmap_sheet.rows) = 3
    /\ \E t \in Timelines :
          LET S == SlidesOfTimeline(t)
          IN  /\ Len(S) = 2
              /\ Len(S[1].columns) = 2
              /\ \E c \in 1..2 :
                    /\ S[1].columns[c].items = <<WpText(1)>>
                    /\ S[2].columns[c].items = <<WpText(3)>>
                    /\ roadmap_sheet.rows[2][1] = t
                    /\ roadmap_sheet.rows[2][2] # S[1].columns[c].phase

\* the entries of a timeline, in row order
EntriesOf(timeline) == SelectSeq(roadmap_df, LAMBDA r : r.Timeline = timeline)

\* C13: on the slides of a timeline every distinct phase of its entries, the
\* blank phase included, has exactly one column, every workpackage of every
\* entry is shown in some column, and the width slot of a column is the usable
\* width divided by the number of columns (the usable width for one column).
C13_EveryPairOneColumn ==
    RoadmapBuilt =>
        \A t \in Timelines :
            LET S == SlidesOfTimeline(t)
                entries == EntriesOf(t)
                usable == SLIDE_WIDTH - (2 * SIDE_MARGIN)
            IN  Len(entries) > 0 =>
                  /\ Len(S) >= 1
                  /\ \A n \in 1..Len(S) :
                        LET cols == S[n].columns
                        IN  /\ \A e \in 1..Len(entries) :
                                  Cardinality({c \in 1..Len(cols) :
                                                  cols[c].phase = entries[e].Phase}) = 1
                            /\ \A c \in 1..Len(cols) :
                                  /\ \E e \in 1..Len(entries) :
                                        entries[e].Phase = cols[c].phase
                                  /\ cols[c].max_width * Len(cols) = usable
                  /\ \A e \in 1..Len(entries) :
                        entries[e].Workpackage # NaN =>
                            \E n \in 1..Len(S) : \E c \in 1..Len(S[n].columns) :
                                \E k \in 1..Len(S[n].columns[c].items) :
                                    S[n].columns[c].items[k] = entries[e].Workpackage

----------------------------------------------------------------------------
(* Specification of read_objectives on Objectives sheets with named,      *)
(* swapped, unnamed and missing columns                                    *)

ObjectivesLayouts ==
    {<<"North star", "Key elements">>, <<"Key elements", "North star">>,
     <<"Goal", "Items">>, <<"North star">>}

\* the row (north star cell, key element cell) under a header row
LayoutRow(columns, row) ==
    IF Len(columns) = 1 THEN <<row[1]>>
    ELSE IF IsKeyElementsHeader(columns[1]) THEN <<row[2], row[1]>> ELSE row

ObjectivesSheets ==
    {[columns |-> columns, rows |-> [i \in 1..Len(rows) |-> LayoutRow(columns, rows[i])]] :
        columns \in ObjectivesLayouts,
        rows \in UNION {ObjectivesRowLists(n) : n \in 0..MaxObjRows}}
      \cup {NoSheet}

\* the workbook of the round-trip scenario
ScenarioObjectives ==
    [columns |-> <<"North star", "Key elements">>,
     rows |-> <<<<"Be the best", "Speed">>, <<NaN, "Quality">>, <<NaN, "Trust">>>>]

ScenarioRoadmap ==
    [columns |-> <<"Timeline", "Phase", "Workpackage">>,
     rows |-> <<<<"Q1", "Design", "Build A">>, <<"Q1", "Design", "Build B">>,
                <<"Q2", "Launch", "Ship">>>>]

InitReadObjectives ==
    /\ pc = "read_objectives"
    /\ args = [excel_file |-> RoadmapXlsx, output |-> NoOutput]
    /\ workbook = GoodWorkbook
    /\ temp_dir = GoodTempDir
    /\ config_dir = GoodConfigDir
    /\ config_names = AllSettings
    /\ template = NoTemplate
    /\ cfg = DefaultConfig
    /\ objectives_sheet \in ObjectivesSheets
    /\ roadmap_sheet = ScenarioRoadmap
    /\ objectives_data = EmptyObjectives
    /\ roadmap_df = <<>>
    /\ slides = <<>>
    /\ output_file = NoFile
    /\ th = NoCall

NextReadObjectives == ReadObjectives

SpecReadObjectives == InitReadObjectives /\ [][NextReadObjectives]_vars

\* C9: key_elements is exactly the list of the non-blank cells of the
\* key-elements column, in row order, whatever the north star column holds.
C9_KeyElementsComplete ==
    (pc = "read_roadmap" /\ Len(objectives_sheet.columns) > 0) =>
        LET key_elements_col == ObjectivesColumns(objectives_sheet.columns)[2]
            cells == [i \in 1..Len(objectives_sheet.rows) |->
                         objectives_sheet.rows[i][key_elements_col]]
        IN  key_elements_col # NoCol =>
                objectives_data.key_elements = SelectSeq(cells, LAMBDA v : v # NaN)

----------------------------------------------------------------------------
(* Specification of a run of generate_presentation with the default       *)
(* configuration                                                           *)

\* rows of the Objectives sheet with a key element in every row
RunObjectivesRowsAt(i) == {<<ns, KeText(i)>> : ns \in {NaN, "Be the best"}}

RECURSIVE RunObjectivesRowLists(_)
RunObjectivesRowLists(n) ==
    IF n = 0 THEN {<<>>}
    ELSE {Append(rows, row) :
            rows \in RunObjectivesRowLists(n - 1), row \in RunObjectivesRowsAt(n)}

\* rows of the Roadmap sheet with every cell filled
RunRoadmapRowsAt(i) == {<<t, p, WpText(i)>> : t \in Timelines, p \in Phases}

RECURSIVE RunRoadmapRowLists(_)
RunRoadmapRowLists(n) ==
    IF n = 0 THEN {<<>>}
    ELSE {Append(rows, row) :
            rows \in RunRoadmapRowLists(n - 1), row \in RunRoadmapRowsAt(n)}

Init ==
    /\ pc = "read_objectives"
    /\ args = [excel_file |-> RoadmapXlsx, output |-> NoOutput]
    /\ workbook = GoodWorkbook
    /\ temp_dir = GoodTempDir
    /\ config_dir = GoodConfigDir
    /\ config_names = AllSettings
    /\ template = NoTemplate
    /\ cfg = DefaultConfig
    /\ \E rows \in UNION {RunObjectivesRowLists(n) : n \in 0..MaxObjRows} :
          objectives_sheet = [columns |-> <<"North star", "Key elements">>, rows |-> rows]
    /\ \E rows \in UNION {RunRoadmapRowLists(n) : n \in 0..MaxRoadRows} :
          roadmap_sheet = [columns |-> <<"Timeline", "Phase", "Workpackage">>,
                           rows |-> rows]
    /\ objectives_data = EmptyObjectives
    /\ roadmap_df = <<>>
    /\ slides = <<>>
    /\ output_file = NoFile
    /\ th = NoCall

Next ==
    \/ ReadObjectives
    \/ ReadRoadmap
    \/ CreateTitleSlide
    \/ CreateObjectivesSlide
    \/ CreateTimelineOverviewSlide
    \/ CreateRoadmapSlides
    \/ Save

Spec == Init /\ [][Next]_vars

\* C8: the round-trip scenario gives one title slide with subtitle
\* "Be the best", one objectives slide listing exactly 3 bullet items, one
\* overview slide with the blocks Q1/Design and Q2/Launch, and a Q1 roadmap
\* slide whose Design column holds "Build A" then "Build B".
C8_RoundTripScenario ==
    (/\ pc = "done"
     /\ objectives_sheet = ScenarioObjectives
     /\ roadmap_sheet = ScenarioRoadmap) =>
        LET titles == SelectSeq(output_file.slides, LAMBDA s : s.kind = "title")
            objectives == SelectSeq(output_file.slides, LAMBDA s : s.kind = "objectives")
            overviews == SelectSeq(output_file.slides, LAMBDA s : s.kind = "overview")
            q1 == SelectSeq(output_file.slides,
                            LAMBDA s : s.kind = "roadmap" /\ s.title = "Roadmap: Q1")
        IN  /\ output_file.exists
            /\ Len(titles) = 1 /\ titles[1].north_star = "Be the best"
            /\ Len(objectives) = 1
            /\ objectives[1].bullets = <<"Speed", "Quality", "Trust">>
            /\ Len(overviews) = 1
            /\ overviews[1].blocks = <<[timeline |-> "Q1", phase |-> "Design"],
                                       [timeline |-> "Q2", phase |-> "Launch"]>>
            /\ Len(q1) = 1
            /\ Len(q1[1].columns) = 1
            /\ q1[1].columns[1].phase = "Design"
            /\ q1[1].columns[1].items = <<"Build A", "Build B">>

----------------------------------------------------------------------------
(* Specification of calls of calculate_text_height on two texts with the   *)
(* same width, font size and bounds                                        *)

MaxTextLen == 26

TextWidths == {Inches10(0), Inches10(5), Inches10(10), Inches10(20), Inches10(91)}

FontSizes == {12, 18, 44}

HeightBounds == {None, Inches10(0), Inches10(3), Inches10(8), Inches10(30)}

InitHeight ==
    /\ pc = "height"
    /\ args = [excel_file |-> RoadmapXlsx, output |-> NoOutput]
    /\ workbook = GoodWorkbook
    /\ temp_dir = GoodTempDir
    /\ config_dir = GoodConfigDir
    /\ config_names = AllSettings
    /\ template = NoTemplate
    /\ \E a \in 0..MaxTextLen, b \in 0..MaxTextLen, w \in TextWidths,
          f \in FontSizes, lo \in HeightBounds, hi \in HeightBounds :
            /\ a <= b
            /\ th = [a |-> a, b |-> b, width |-> w, font |-> f, min_height |-> lo,
                     max_height |-> hi, height_a |-> None, height_b |-> None]
    /\ cfg = DefaultConfig
    /\ objectives_sheet = NoSheet
    /\ roadmap_sheet = NoSheet
    /\ objectives_data = EmptyObjectives
    /\ roadmap_df = <<>>
    /\ slides = <<>>
    /\ output_file = NoFile

\* the two calls calculate_text_height(a, ...) and calculate_text_height(b, ...)
CallTextHeight ==
    /\ pc = "height"
    /\ pc' = "height_done"
    /\ th' = [th EXCEPT
                !.height_a = calculate_text_height(th.a, th.width, th.font,
                                                   th.min_height, th.max_height),
                !.height_b = calculate_text_height(th.b, th.width, th.font,
                                                   th.min_height, th.max_height)]
    /\ UNCHANGED <<args, workbook, temp_dir, config_dir, config_names, template, cfg,
                   objectives_sheet, roadmap_sheet, objectives_data,
                   roadmap_df, slides, output_file>>

NextHeight == CallTextHeight

SpecHeight == InitHeight /\ [][NextHeight]_vars

Returned(h) == h # Raised

\* C4 (as claimed): for len(a) <= len(b), the empty text included, and the same
\* width, font size and bounds, the height of a is at most the height of b.
C4_MonotoneWithEmpty ==
    (pc = "height_done" /\ Returned(th.height_a) /\ Returned(th.height_b))
        => th.height_a <= th.height_b

\* C4 (amended): for non-empty texts with len(a) <= len(b) and the same width,
\* font size and bounds, either both calls raise or the height of a is at most
\* the height of b.
C4_MonotoneNonEmpty ==
    (pc = "height_done" /\ th.a > 0)
        => /\ Returned(th.height_a) <=> Returned(th.height_b)
           /\ Returned(th.height_a) => th.height_a <= th.height_b

\* a longer non-empty text got a strictly larger height
C4_Witness ==
    /\ pc = "height_done"
    /\ th.a > 0 /\ th.a < th.b
    /\ Returned(th.height_a) /\ th.height_a < th.height_b

\* C5: when both min_height and max_height are passed (min_height <= max_height),
\* the returned height lies within [min_height, max_height].
C5_WithinBounds ==
    (/\ pc = "height_done"
     /\ th.min_height # None /\ th.max_height # None
     /\ th.min_height <= th.max_height)
        => /\ Returned(th.height_a)
                => (th.min_height <= th.height_a /\ th.height_a <= th.max_height)
           /\ Returned(th.height_b)
                => (th.min_height <= th.height_b /\ th.height_b <= th.max_height)

\* the reference formula of the estimate, in tenths of an inch and in points:
\* chars_per_line c is the integer with c <= (w/10) * max(8, 216/pt) < c + 1
RefCharsPerLine(w10, font_pt) ==
    CHOOSE c \in 0..(w10 * 5) :
        /\ c * 10 * font_pt <= w10 * Max(8 * font_pt, 216)
        /\ w10 * Max(8 * font_pt, 216) < (c + 1) * 10 * font_pt

\* estimated_lines l is the integer with l <= 1.2 * max(1, floor(n/c) + 1) < l + 1
RefLines(n, c) ==
    LET q == CHOOSE k \in 0..n : k * c <= n /\ n < (k + 1) * c
        raw == IF q + 1 >= 1 THEN q + 1 ELSE 1
    IN  CHOOSE l \in 0..(2 * raw) : 5 * l <= 6 * raw /\ 6 * raw < 5 * (l + 1)

C7_EmptyTextMinHeight ==
    (pc = "height_done" /\ th.a = 0)
        => th.height_a = (IF th.min_height # None THEN th.min_height ELSE Inches10(5))

----------------------------------------------------------------------------
(* Specification of read_roadmap on Roadmap sheets with one, two and three *)
(* columns, named, renamed and reordered, and with blank timeline cells    *)

\* a layout is the header row and, for every column, the cell of the row
\* (timeline, phase, workpackage) that the column holds
RoadmapLayouts ==
    {[columns |-> <<"Timeline", "Phase", "Workpackage">>, roles |-> <<1, 2, 3>>],
     [columns |-> <<" TIMELINE ", "Phase", "WORK PACKAGE">>, roles |-> <<1, 2, 3>>],
     [columns |-> <<"Workpackage", "Phase", "Timeline">>, roles |-> <<3, 2, 1>>],
     [columns |-> <<"Timeline", "Stage", "Task">>, roles |-> <<1, 2, 3>>],
     [columns |-> <<"Step", "Stage", "Workpackage">>, roles |-> <<1, 2, 3>>],
     [columns |-> <<"Step", "Stage", "Task">>, roles |-> <<1, 2, 3>>],
     [columns |-> <<"Step", "Stage">>, roles |-> <<1, 2>>],
     [columns |-> <<"Timeline", "Phase">>, roles |-> <<1, 2>>],
     [columns |-> <<"Step">>, roles |-> <<1>>],
     [columns |-> <<"Timeline">>, roles |-> <<1>>]}

\* the rows (timeline, phase, workpackage) a Roadmap sheet can have at row i
LayoutRoadmapRowsAt(i) ==
    {<<t, p, w>> : t \in {NaN, "Q1"}, p \in {NaN, "Design"}, w \in {NaN, WpText(i)}}

RECURSIVE LayoutRoadmapRowLists(_)
LayoutRoadmapRowLists(n) ==
    IF n = 0 THEN {<<>>}
    ELSE {Append(rows, row) :
            rows \in LayoutRoadmapRowLists(n - 1), row \in LayoutRoadmapRowsAt(n)}

LayoutRoadmapSheets ==
    {[columns |-> l.columns,
      rows |-> [i \in 1..Len(rows) |->
                   [k \in 1..Len(l.columns) |-> rows[i][l.roles[k]]]]] :
        l \in RoadmapLayouts,
        rows \in UNION {LayoutRoadmapRowLists(n) : n \in 0..MaxRoadRows}}

InitReadRoadmap ==
    /\ pc = "read_roadmap"
    /\ args = [excel_file |-> RoadmapXlsx, output |-> NoOutput]
    /\ workbook = GoodWorkbook
    /\ temp_dir = GoodTempDir
    /\ config_dir = GoodConfigDir
    /\ config_names = AllSettings
    /\ template = NoTemplate
    /\ cfg = DefaultConfig
    /\ objectives_sheet = ScenarioObjectives
    /\ roadmap_sheet \in LayoutRoadmapSheets
    /\ objectives_data = read_objectives(objectives_sheet)
    /\ roadmap_df = <<>>
    /\ slides = <<>>
    /\ output_file = NoFile
    /\ th = NoCall

NextReadRoadmap == ReadRoadmap

SpecReadRoadmap == InitReadRoadmap /\ [][NextReadRoadmap]_vars

RoadmapRead == pc = "title"

\* the column of the sheet that holds the cell `role` of the rows, NoCol if none
RoleColumn(role) ==
    LET roles == (CHOOSE l \in RoadmapLayouts : l.columns = roadmap_sheet.columns).roles
    IN  IF \E k \in 1..Len(roles) : roles[k] = role
        THEN CHOOSE k \in 1..Len(roles) : roles[k] = role
        ELSE NoCol

\* C12: the entries returned by read_roadmap are the rows of the sheet whose
\* timeline cell is filled, all of them and in row order; every entry has a
\* non-blank timeline.
C12_BlankTimelineDropped ==
    RoadmapRead =>
        LET tcol == RoleColumn(1)
            wcol == RoleColumn(3)
            kept == SelectSeq(roadmap_sheet.rows, LAMBDA r : r[tcol] # NaN)
        IN  /\ Len(roadmap_df) = Len(kept)
            /\ \A i \in 1..Len(roadmap_df) :
                  /\ roadmap_df[i].Timeline # NaN /\ roadmap_df[i].Timeline # ""
                  /\ roadmap_df[i].Timeline = kept[i][tcol]
                  /\ wcol # NoCol => roadmap_df[i].Workpackage = kept[i][wcol]

\* of three rows the second has a blank timeline and the other two are returned
C12_Witness ==
    /\ RoadmapRead
    /\ Len(roadmap_sheet.rows) = 3
    /\ roadmap_sheet.rows[2][RoleColumn(1)] = NaN
    /\ Len(roadmap_df) = 2
    /\ roadmap_df[1].Workpackage = WpText(1)
    /\ roadmap_df[2].Workpackage = WpText(3)

\* C19: a role for which the column loop found no column is read from its
\* position (timeline 1st, phase 2nd, workpackage 3rd column); with fewer than
\* 2 (3) columns the phase (workpackage) of every entry is "" and the rows
\* with a timeline are still returned.
C19_PositionalFallback ==
    RoadmapRead =>
        LET columns == roadmap_sheet.columns
            found == RoadmapCols(columns, 1, NoCol, NoCol, NoCol)
            tcol == IF found[1] = NoCol THEN 1 ELSE found[1]
            kept == SelectSeq(roadmap_sheet.rows, LAMBDA r : r[tcol] # NaN)
        IN  /\ Len(roadmap_df) = Len(kept)
            /\ \A i \in 1..Len(roadmap_df) :
                  /\ found[1] = NoCol => roadmap_df[i].Timeline = kept[i][1]
                  /\ found[2] = NoCol =>
                        roadmap_df[i].Phase
                            = (IF Len(columns) >= 2 THEN kept[i][2] ELSE "")
                  /\ found[3] = NoCol =>
                        roadmap_df[i].Workpackage
                            = (IF Len(columns) >= 3 THEN kept[i][3] ELSE "")

\* a sheet with the two unnamed columns Step and Stage was read: the phase
\* comes from the second column and the workpackage is blank
C19_Witness ==
    /\ RoadmapRead
    /\ roadmap_sheet.columns = <<"Step", "Stage">>
    /\ Len(roadmap_df) = 2
    /\ roadmap_df[1].Timeline = "Q1"
    /\ roadmap_df[1].Phase = "Design"
    /\ roadmap_df[2].Phase = NaN
    /\ roadmap_df[1].Workpackage = ""

----------------------------------------------------------------------------
(* Specification of create_timeline_overview_slide on the roadmaps read    *)
(* from Roadmap sheets with three columns and with a timeline column only  *)

\* Roadmap sheets whose only column is the timeline
TimelineOnlySheets ==
    {[columns |-> <<"Timeline">>, rows |-> [i \in 1..Len(rows) |-> <<rows[i][1]>>]] :
        rows \in UNION {RunRoadmapRowLists(n) : n \in 0..MaxRoadRows}}

InitOverview ==
    /\ pc = "overview"
    /\ args = [excel_file |-> RoadmapXlsx, output |-> NoOutput]
    /\ workbook = GoodWorkbook
    /\ temp_dir = GoodTempDir
    /\ config_dir = GoodConfigDir
    /\ config_names = AllSettings
    /\ template = NoTemplate
    /\ cfg = DefaultConfig
    /\ objectives_sheet = ScenarioObjectives
    /\ roadmap_sheet \in RoadmapSheets \cup TimelineOnlySheets
    /\ objectives_data = read_objectives(objectives_sheet)
    /\ roadmap_df = read_roadmap(roadmap_sheet)
    /\ slides = create_title_slide(objectives_data, excel_filename(args.excel_file))
                    \o create_objectives_slide(cfg, objectives_data)
    /\ output_file = NoFile
    /\ th = NoCall

NextOverview == CreateTimelineOverviewSlide

SpecOverview == InitOverview /\ [][NextOverview]_vars

OverviewBuilt == pc \in {"roadmap", "save", "done"}

\* a phase cell that holds a phase
PhaseFilled(phase) == phase # NaN /\ phase # ""

RECURSIVE BlocksFor(_)
\* one block for every distinct (timeline, phase) pair, the timelines in order
\* of first appearance and the phases of a timeline in order of first
\* appearance; a timeline without any phase has one block with no phase
BlocksFor(timelines) ==
    IF timelines = <<>> THEN <<>>
    ELSE LET t == Head(timelines)
             phases == Unique(SelectSeq(Column(EntriesOf(t), "Phase"), PhaseFilled))
         IN  (IF phases = <<>> THEN <<[timeline |-> t, phase |-> NaN]>>
              ELSE [i \in 1..Len(phases) |-> [timeline |-> t, phase |-> phases[i]]])
                \o BlocksFor(Tail(timelines))

\* C14: for a non-empty roadmap there is one overview slide; it shows one
\* block for every distinct (timeline, phase) pair in order of first
\* appearance, and one block labelled with the timeline alone for a timeline
\* whose entries have no phase, so that every timeline has a block.
C14_OverviewBlocks ==
    (OverviewBuilt /\ roadmap_df # <<>>) =>
        LET S == SlidesOfKind("overview")
        IN  /\ Len(S) = 1
            /\ S[1].blocks = BlocksFor(Unique(Column(roadmap_df, "Timeline")))
            /\ \A i \in 1..Len(roadmap_df) :
                  \E b \in 1..Len(S[1].blocks) :
                      S[1].blocks[b].timeline = roadmap_df[i].Timeline

----------------------------------------------------------------------------
(* Specification of a run of the command line tool: the input file may be  *)
(* absent, may not be a spreadsheet or may lack sheets, and a sheet may    *)
(* have no columns                                                         *)

\* the files args.excel_file can name
Workbooks ==
    {[exists |-> TRUE, valid |-> TRUE, sheets |-> ss] : ss \in SUBSET SheetNames}
        \cup {[exists |-> TRUE, valid |-> FALSE, sheets |-> {}],
              [exists |-> FALSE, valid |-> FALSE, sheets |-> {}]}

\* rows of the Roadmap sheet with a workpackage and a filled or blank phase
CliRoadmapRowsAt(i) == {<<t, p, WpText(i)>> : t \in Timelines, p \in {"Design", NaN}}

RECURSIVE CliRoadmapRowLists(_)
CliRoadmapRowLists(n) ==
    IF n = 0 THEN {<<>>}
    ELSE {Append(rows, row) :
            rows \in CliRoadmapRowLists(n - 1), row \in CliRoadmapRowsAt(n)}

CliRoadmapSheets ==
    {[columns |-> <<"Timeline", "Phase", "Workpackage">>, rows |-> rows] :
        rows \in UNION {CliRoadmapRowLists(n) : n \in 0..MaxRoadRows}}
      \cup {NoSheet}

InitCli ==
    /\ pc = "main"
    /\ args \in [excel_file : {RoadmapXlsx}, output : {NoOutput, "deck.pptx"}]
    /\ workbook \in Workbooks
    /\ temp_dir = GoodTempDir
    /\ config_dir = GoodConfigDir
    /\ config_names = AllSettings
    /\ template = NoTemplate
    /\ cfg = DefaultConfig
    /\ objectives_sheet \in {ScenarioObjectives, FilledObjectivesSheet, NoSheet}
    /\ roadmap_sheet \in CliRoadmapSheets
    /\ objectives_data = EmptyObjectives
    /\ roadmap_df = <<>>
    /\ slides = <<>>
    /\ output_file = NoFile
    /\ th = NoCall

NextCli ==
    \/ Main
    \/ ReadObjectives
    \/ ReadRoadmap
    \/ CreateTitleSlide
    \/ CreateObjectivesSlide
    \/ CreateTimelineOverviewSlide
    \/ CreateRoadmapSlides
    \/ Save

SpecCli == InitCli /\ [][NextCli]_vars

\* the place of a slide's section in the deck
SectionRank(kind) ==
    CASE kind = "title" -> 1 [] kind = "objectives" -> 2
      [] kind = "overview" -> 3 [] kind = "roadmap" -> 4

\* the slides of a kind in the saved deck
SavedOfKind(kind) == SelectSeq(output_file.slides, LAMBDA s : s.kind = kind)

\* C15: while the deck is built no slide of a later section precedes a slide
\* of an earlier section; for a non-empty roadmap the saved deck is 1 title
\* slide, the objectives pages (1 or more), 1 overview slide and 1 or more
\* roadmap slides for every timeline, and nothing else.
C15_DeckOrder ==
    /\ \A i, j \in 1..Len(slides) :
          i < j => SectionRank(slides[i].kind) <= SectionRank(slides[j].kind)
    /\ (pc = "done" /\ roadmap_df # <<>>) =>
          LET deck == output_file.slides
              objectives == SavedOfKind("objectives")
              timelines == Range(Column(roadmap_df, "Timeline"))
              pages(t) == SelectSeq(deck, LAMBDA s : s.kind = "roadmap"
                                                     /\ s.title = "Roadmap: " \o t)
          IN  /\ deck = slides
              /\ Len(SavedOfKind("title")) = 1
              /\ Len(objectives) >= 1 /\ Len(objectives) = objectives[1].of
              /\ Len(SavedOfKind("overview")) = 1
              /\ \A t \in timelines : Len(pages(t)) >= 1 /\ Len(pages(t)) = pages(t)[1].of
              /\ \A s \in Range(SavedOfKind("roadmap")) :
                    \E t \in timelines : s.title = "Roadmap: " \o t
              /\ Len(deck) = 1 + Len(objectives) + 1
                                + (IF "Q1" \in timelines THEN Len(pages("Q1")) ELSE 0)
                                + (IF "Q2" \in timelines THEN Len(pages("Q2")) ELSE 0)

\* a deck of five slides was saved for a roadmap with two timelines
C15_Witness ==
    /\ pc = "done"
    /\ Range(Column(roadmap_df, "Timeline")) = {"Q1", "Q2"}
    /\ Len(output_file.slides) = 5
    /\ output_file.slides[4].kind = "roadmap"
    /\ output_file.slides[5].kind = "roadmap"

\* the workbook can be opened and has no Roadmap sheet
RoadmapSheetMissing ==
    workbook.exists /\ workbook.valid /\ "Roadmap" \notin workbook.sheets

AfterReadRoadmap == pc \in {"title", "objectives", "overview", "roadmap", "save", "done"}

\* C16: when the Roadmap sheet is missing read_roadmap returns no entry, the
\* overview and the roadmap step add no slide, and the deck that is saved holds
\* the title slide and the objectives slide(s) only.
C16_MissingRoadmapSheet ==
    RoadmapSheetMissing =>
        /\ AfterReadRoadmap => roadmap_df = <<>>
        /\ SlidesOfKind("overview") = <<>> /\ SlidesOfKind("roadmap") = <<>>
        /\ pc = "done" =>
              /\ output_file.exists
              /\ Len(output_file.slides) >= 2
              /\ output_file.slides[1].kind = "title"
              /\ \A i \in 2..Len(output_file.slides) :
                    output_file.slides[i].kind = "objectives"

\* a deck of the title slide and one objectives slide with the key elements of
\* the Objectives sheet was saved for a workbook without Roadmap sheet
C16_Witness ==
    /\ pc = "done"
    /\ RoadmapSheetMissing
    /\ Len(output_file.slides) = 2
    /\ output_file.slides[2].bullets = <<"Speed", "Quality", "Trust">>

AfterReadObjectives == AfterReadRoadmap \/ pc = "read_roadmap"

\* the read of a sheet fails: the file cannot be read as a spreadsheet, the
\* sheet is missing or the sheet has no columns
ReadFails(sheet_name, sheet) ==
    \/ ~workbook.exists \/ ~workbook.valid
    \/ sheet_name \notin workbook.sheets
    \/ Len(sheet.columns) = 0

\* C17: a failed read of the Objectives sheet gives {north_star: "",
\* key_elements: []} and a failed read of the Roadmap sheet gives no entry; the
\* sheet whose read does not fail gives its data whatever happened to the other
\* sheet; the run, once past the check of the input file, ends with a saved
\* deck that starts with the title slide and an objectives slide.
C17_ReadFailuresNonFatal ==
    /\ (AfterReadObjectives /\ ReadFails("Objectives", objectives_sheet))
            => objectives_data = EmptyObjectives
    /\ (AfterReadRoadmap /\ ReadFails("Roadmap", roadmap_sheet))
            => roadmap_df = <<>>
    /\ (AfterReadObjectives /\ ~ReadFails("Objectives", objectives_sheet))
            => /\ objectives_data.north_star = "Be the best"
               /\ objectives_data.key_elements # <<>>
    /\ (AfterReadRoadmap /\ ~ReadFails("Roadmap", roadmap_sheet))
            => /\ Len(roadmap_df) = Len(roadmap_sheet.rows)
               /\ \A i \in 1..Len(roadmap_df) :
                     roadmap_df[i].Workpackage = roadmap_sheet.rows[i][3]
    /\ pc = "done"
            => /\ output_file.exists
               /\ output_file.slides = slides
               /\ Len(slides) >= 2
               /\ slides[1].kind = "title" /\ slides[2].kind = "objectives"
    /\ pc = "exit" => ~workbook.exists

\* the Objectives sheet is missing, the Roadmap sheet was read with its three
\* rows and the deck was saved
C17_Witness ==
    /\ pc = "done"
    /\ workbook.sheets = {"Roadmap"}
    /\ objectives_data = EmptyObjectives
    /\ Len(roadmap_df) = 3
    /\ output_file.exists
    /\ SavedOfKind("roadmap") # <<>>

\* C20: when the input file does not exist, main returns without entering
\* generate_presentation: no sheet is read, no slide is built and no output
\* file is written, with and without --output.
C20_MissingInputFile ==
    ~workbook.exists =>
        /\ pc \in {"main", "exit"}
        /\ objectives_data = EmptyObjectives /\ roadmap_df = <<>>
        /\ slides = <<>>
        /\ output_file = NoFile

\* main has returned for a missing input file and --output deck.pptx
C20_Witness ==
    /\ pc = "exit"
    /\ ~workbook.exists
    /\ args.output = "deck.pptx"
    /\ output_file = NoFile

----------------------------------------------------------------------------
(* Specification of read_objectives on Objectives sheets whose headers     *)
(* vary in case, whitespace and position                                   *)

\* a layout is the header row and, for every column, what the column holds:
\* 1 the north star cell, 2 the key element cell, 3 another cell
ObjectivesHeaderLayouts ==
    {[columns |-> <<"North star", "Key elements">>, roles |-> <<1, 2>>],
     [columns |-> <<"NORTH STAR", "KEY ELEMENTS">>, roles |-> <<1, 2>>],
     [columns |-> <<"North  Star ", "key ELEMENTS ">>, roles |-> <<1, 2>>],
     [columns |-> <<" north star", "Key elements">>, roles |-> <<1, 2>>],
     [columns |-> <<"Key elements", "NORTH STAR">>, roles |-> <<2, 1>>],
     [columns |-> <<"Owner", "North  Star ", "KEY ELEMENTS">>, roles |-> <<3, 1, 2>>],
     [columns |-> <<"Owner", "key ELEMENTS ", "NORTH STAR">>, roles |-> <<3, 2, 1>>],
     [columns |-> <<"North star", "Items">>, roles |-> <<1, 2>>],
     [columns |-> <<"Goal", "KEY ELEMENTS">>, roles |-> <<1, 2>>],
     [columns |-> <<"Goal", "Items">>, roles |-> <<1, 2>>],
     [columns |-> <<"Goal", "Items", "Owner">>, roles |-> <<1, 2, 3>>],
     [columns |-> <<"Goal">>, roles |-> <<1>>]}

ObjectivesHeaderSheets ==
    {[columns |-> l.columns,
      rows |-> [i \in 1..Len(rows) |->
                   [k \in 1..Len(l.columns) |->
                       IF l.roles[k] = 3 THEN "Ann" ELSE rows[i][l.roles[k]]]]] :
        l \in ObjectivesHeaderLayouts,
        rows \in UNION {ObjectivesRowLists(n) : n \in 0..MaxObjRows}}

InitReadHeaders ==
    /\ pc = "read_objectives"
    /\ args = [excel_file |-> RoadmapXlsx, output |-> NoOutput]
    /\ workbook = GoodWorkbook
    /\ temp_dir = GoodTempDir
    /\ config_dir = GoodConfigDir
    /\ config_names = AllSettings
    /\ template = NoTemplate
    /\ cfg = DefaultConfig
    /\ objectives_sheet \in ObjectivesHeaderSheets
    /\ roadmap_sheet = ScenarioRoadmap
    /\ objectives_data = EmptyObjectives
    /\ roadmap_df = <<>>
    /\ slides = <<>>
    /\ output_file = NoFile
    /\ th = NoCall

NextReadHeaders == ReadObjectives

SpecReadHeaders == InitReadHeaders /\ [][NextReadHeaders]_vars

\* the column of the Objectives sheet that holds the cells `role`, NoCol if none
ObjectivesRoleColumn(role) ==
    LET roles == (CHOOSE l \in ObjectivesHeaderLayouts :
                      l.columns = objectives_sheet.columns).roles
    IN  IF \E k \in 1..Len(roles) : roles[k] = role
        THEN CHOOSE k \in 1..Len(roles) : roles[k] = role
        ELSE NoCol

\* C18: whatever the case, the whitespace and the position of the headers, the
\* north star is read from the column whose header names it and the key
\* elements from the column whose header names them; with no such header the
\* north star is read from the first and the key elements from the second column.
C18_HeaderResolution ==
    pc = "read_roadmap" =>
        LET nscol == ObjectivesRoleColumn(1)
            kecol == ObjectivesRoleColumn(2)
            kept == SelectSeq(objectives_sheet.rows, LAMBDA r : r[nscol] # NaN)
        IN  /\ objectives_data.north_star
                    = (IF kept = <<>> THEN "" ELSE kept[1][nscol])
            /\ objectives_data.north_star \in {"", "Be the best"}
            /\ objectives_data.key_elements
                    = (IF kecol = NoCol THEN <<>>
                       ELSE SelectSeq([i \in 1..Len(kept) |-> kept[i][kecol]],
                                      LAMBDA v : v # NaN))

\* the sheet with the headers Owner, "North  Star " and KEY ELEMENTS was read:
\* the north star and two key elements come from the second and third column
C18_Witness ==
    /\ pc = "read_roadmap"
    /\ objectives_sheet.columns = <<"Owner", "North  Star ", "KEY ELEMENTS">>
    /\ objectives_data.north_star = "Be the best"
    /\ objectives_data.key_elements = <<KeText(1), KeText(2)>>

----------------------------------------------------------------------------
(* Specification of the two readers with a temporary directory in which    *)
(* creating, copying or removing a file may fail.  generate_presentation   *)
(* is entered directly, so the input file may also be absent               *)

TempDirs ==
    {[create_ok |-> c, copy_ok |-> k, remove_ok |-> r, files |-> 0] :
        c \in BOOLEAN, k \in BOOLEAN, r \in BOOLEAN}

InitTempFiles ==
    /\ pc = "read_objectives"
    /\ args = [excel_file |-> RoadmapXlsx, output |-> NoOutput]
    /\ workbook \in Workbooks
    /\ temp_dir \in TempDirs
    /\ config_dir = GoodConfigDir
    /\ config_names = AllSettings
    /\ template = NoTemplate
    /\ cfg = DefaultConfig
    /\ objectives_sheet \in {ScenarioObjectives, FilledObjectivesSheet, NoSheet}
    /\ roadmap_sheet \in {ScenarioRoadmap, NoSheet}
    /\ objectives_data = EmptyObjectives
    /\ roadmap_df = <<>>
    /\ slides = <<>>
    /\ output_file = NoFile
    /\ th = NoCall

NextTempFiles ==
    \/ ReadObjectives
    \/ ReadRoadmap

SpecTempFiles == InitTempFiles /\ [][NextTempFiles]_vars

\* C21: once read_objectives or read_roadmap has returned, no temporary file
\* made by the call is left on disk, whether or not the copy and the read
\* succeeded (the input file itself is never removed: os.remove is applied
\* only to a path that differs from excel_file)
C21_NoTempFileLeft ==
    pc \in {"read_roadmap", "title"} => temp_dir.files = 0

----------------------------------------------------------------------------
(* Specification of a run from the import of the package on: the user      *)
(* configuration may be absent, unreadable, broken or partial, and its     *)
(* directory may not be writable                                           *)

\* the names the user's config.py can define: every setting, every setting
\* and one of the user's own, the settings of a release without the overview
\* slide, the brand colours alone, nothing
UserDefines ==
    {AllSettings,
     AllSettings \cup {"COMPANY_NAME"},
     AllSettings \ {"OVERVIEW_TIMELINE_SHAPE_COLOR", "OVERVIEW_TIMELINE_TEXT_COLOR",
                    "OVERVIEW_CHEVRON_COLOR", "OVERVIEW_SHAPE_HEIGHT",
                    "OVERVIEW_SHAPE_WIDTH", "OVERVIEW_CHEVRON_WIDTH",
                    "OVERVIEW_CHEVRON_HEIGHT"},
     {"BRAND_PRIMARY_COLOR", "BRAND_SECONDARY_COLOR", "BRAND_ACCENT_COLOR"},
     {}}

UserConfigFiles ==
    {[exists |-> TRUE, readable |-> r, evaluates |-> e, defines |-> d] :
        r \in BOOLEAN, e \in BOOLEAN, d \in UserDefines}

ConfigDirs ==
    {[writable |-> w, file |-> f] :
        w \in BOOLEAN, f \in UserConfigFiles \cup {NoConfigFile}}

InitConfig ==
    /\ pc = "import"
    /\ args \in [excel_file : {RoadmapXlsx}, output : {NoOutput, "deck.pptx"}]
    /\ workbook \in {GoodWorkbook, [exists |-> FALSE, valid |-> FALSE, sheets |-> {}]}
    /\ temp_dir = GoodTempDir
    /\ config_dir \in ConfigDirs
    /\ config_names = {}
    /\ template = NoTemplate
    /\ cfg = DefaultConfig
    /\ objectives_sheet \in {ScenarioObjectives, NoSheet}
    /\ roadmap_sheet \in {ScenarioRoadmap, NoSheet}
    /\ objectives_data = EmptyObjectives
    /\ roadmap_df = <<>>
    /\ slides = <<>>
    /\ output_file = NoFile
    /\ th = NoCall

NextConfig ==
    \/ LoadConfig
    \/ Main
    \/ ReadObjectives
    \/ ReadRoadmap
    \/ CreateTitleSlide
    \/ CreateObjectivesSlide
    \/ CreateTimelineOverviewSlide
    \/ CreateRoadmapSlides
    \/ Save

SpecConfig == InitConfig /\ [][NextConfig]_vars

\* load_config has returned
ConfigLoaded == pc \notin {"import", "import_error"}

\* the user file was read and evaluated without error
UserConfigUsable ==
    config_dir.file.exists /\ config_dir.file.readable /\ config_dir.file.evaluates

\* C22: load_config never raises and always returns a configuration: the
\* user's when its file (created from the defaults if absent) is read and
\* evaluated, the built-in defaults when creating, reading or evaluating fails
C22_LoadConfigNeverRaises ==
    /\ pc # "import_error"
    /\ ConfigLoaded =>
          config_names = IF UserConfigUsable THEN config_dir.file.defines
                         ELSE AllSettings

\* C23: a user configuration file that exists is never written, replaced or
\* deleted by any step of a run
C23_ExistingConfigUntouched ==
    [][config_dir.file.exists => config_dir'.file = config_dir.file]_vars

\* a run has ended with a deck saved while the user file, which cannot be
\* evaluated, is still in place
C23_Witness ==
    /\ pc = "done"
    /\ output_file.exists
    /\ config_dir.file.exists
    /\ ~config_dir.file.evaluates
    /\ config_dir.file.defines = AllSettings \cup {"COMPANY_NAME"}

\* C30: when the user file evaluates without error, the configuration in use
\* defines every setting of the built-in configuration, and no composer
\* stops on a missing setting
C30_EverySettingDefined ==
    (ConfigLoaded /\ UserConfigUsable) =>
        /\ AllSettings \subseteq config_names
        /\ pc # "crashed"

----------------------------------------------------------------------------
(* Specification of a run with a template configured for the title slide,  *)
(* for the content slides, for both or for none; the template file may not *)
(* load, and its slide holds shapes of the kinds create_slide_from_template *)
(* tells apart                                                             *)

MaxShapes == 2

ShapeKinds ==
    {"picture", "bad_picture", "linked_picture", "text", "text_partial", "other"}

\* the shape lists of a template slide with n shapes, numbered in order
TemplateShapes(n) ==
    {[i \in 1..n |-> [id |-> i, kind |-> kinds[i]]] : kinds \in [1..n -> ShapeKinds]}

Templates ==
    {[configured |-> c, loads |-> l, shapes |-> ss] :
        c \in SUBSET {"title", "content"}, l \in BOOLEAN,
        ss \in UNION {TemplateShapes(n) : n \in 0..MaxShapes}}

InitTemplate ==
    /\ pc = "read_objectives"
    /\ args = [excel_file |-> RoadmapXlsx, output |-> NoOutput]
    /\ workbook = GoodWorkbook
    /\ temp_dir = GoodTempDir
    /\ config_dir = GoodConfigDir
    /\ config_names = AllSettings
    /\ template \in Templates
    /\ cfg = DefaultConfig
    /\ objectives_sheet \in {ScenarioObjectives, NoSheet}
    /\ roadmap_sheet \in {ScenarioRoadmap, NoSheet}
    /\ objectives_data = EmptyObjectives
    /\ roadmap_df = <<>>
    /\ slides = <<>>
    /\ output_file = NoFile
    /\ th = NoCall

NextTemplate ==
    \/ ReadObjectives
    \/ ReadRoadmap
    \/ CreateTitleSlide
    \/ CreateObjectivesSlide
    \/ CreateTimelineOverviewSlide
    \/ CreateRoadmapSlides
    \/ Save

SpecTemplate == InitTemplate /\ [][NextTemplate]_vars

\* the slides the composers intend for the data read: the deck built when
\* no template is configured
IntendedSlides ==
    create_title_slide(objectives_data, excel_filename(args.excel_file))
        \o create_objectives_slide(cfg, objectives_data)
        \o create_timeline_overview_slide(roadmap_df)
        \o create_roadmap_slides(cfg, roadmap_df)

\* the template cannot be used for the slides named `which`: it does not
\* load, or copying its slide fails
TemplateFails(which) ==
    /\ which \in template.configured
    /\ ~template.loads \/ ~create_slide_from_template(template).returned

\* C24: when a template is configured and loading it or copying its slide
\* fails, the saved deck has exactly one slide for each intended slide, the
\* same slides in the same order as without template, and no slide left
\* over from an abandoned copy
C24_TemplateFallback ==
    (pc = "done" /\ (TemplateFails("title") \/ TemplateFails("content"))) =>
        /\ Len(output_file.slides) = Len(IntendedSlides)
        /\ \A i \in 1..Len(output_file.slides) :
              /\ output_file.slides[i].kind # "abandoned"
              /\ output_file.slides[i].kind = IntendedSlides[i].kind

\* the number of copies of template shape id on a slide
Copies(slide, id) ==
    Cardinality({k \in 1..Len(slide.template_shapes) : slide.template_shapes[k] = id})

\* C25: on the title slide made from a template that loaded, a template
\* shape whose copy fails is the only shape missing: the slide is returned
\* (nothing is abandoned), no template shape is on it twice, and every
\* picture and text shape whose copy does not fail is on it once
C25_ShapeFailureSkipsOnlyThatShape ==
    (pc \in {"objectives", "overview", "roadmap", "save", "done"}
        /\ load_template_slide(template, "title")) =>
        LET S == SelectSeq(slides, LAMBDA s : s.kind = "title")
        IN  /\ \A i \in 1..Len(slides) : slides[i].kind # "abandoned"
            /\ Len(S) = 1
            /\ \A i \in 1..Len(template.shapes) :
                  /\ Copies(S[1], template.shapes[i].id) <= 1
                  /\ template.shapes[i].kind \in {"picture", "text"} =>
                        Copies(S[1], template.shapes[i].id) = 1

----------------------------------------------------------------------------
(* Specification of runs on one workbook under different file names,       *)
(* directories and output paths                                            *)

\* the paths the input file can be given by
ExcelFiles ==
    {RoadmapXlsx,
     [dir |-> "plans/", name |-> "roadmap", ext |-> ".xlsx"],
     [dir |-> "", name |-> "Q3 plan", ext |-> ".xlsx"],
     [dir |-> "plans/", name |-> "Q3 plan", ext |-> ".xlsm"]}

RunArgs == [excel_file : ExcelFiles, output : {NoOutput, "deck.pptx", "out/final.pptx"}]

InitRuns ==
    /\ pc = "main"
    /\ args \in RunArgs
    /\ workbook \in Workbooks
    /\ temp_dir = GoodTempDir
    /\ config_dir = GoodConfigDir
    /\ config_names = AllSettings
    /\ template = NoTemplate
    /\ cfg \in {DefaultConfig, [DefaultConfig EXCEPT !.SLIDE_HEIGHT = Inches10(40)]}
    /\ objectives_sheet \in {ScenarioObjectives, FilledObjectivesSheet, NoSheet}
    /\ roadmap_sheet \in {ScenarioRoadmap, NoSheet}
    /\ objectives_data = EmptyObjectives
    /\ roadmap_df = <<>>
    /\ slides = <<>>
    /\ output_file = NoFile
    /\ th = NoCall

NextRuns ==
    \/ Main
    \/ ReadObjectives
    \/ ReadRoadmap
    \/ CreateTitleSlide
    \/ CreateObjectivesSlide
    \/ CreateTimelineOverviewSlide
    \/ CreateRoadmapSlides
    \/ Save

SpecRuns == InitRuns /\ [][NextRuns]_vars

\* the deck generate_presentation builds, under the command line a, from
\* the data read from this workbook and this configuration
DeckOf(a) ==
    from_template(template, "title",
                  create_title_slide(objectives_data, excel_filename(a.excel_file)))
        \o from_template(template, "content", create_objectives_slide(cfg, objectives_data))
        \o from_template(template, "content", create_timeline_overview_slide(roadmap_df))
        \o from_template(template, "content", create_roadmap_slides(cfg, roadmap_df))

\* C26 as stated: the saved deck is the deck of every run on the same sheet
\* contents and configuration, whatever the name and the directory of the
\* input file and whatever the output path
C26_DeckIndependentOfPaths ==
    pc = "done" => \A a \in RunArgs : DeckOf(a) = output_file.slides

\* C26, amended: the saved deck is the deck of every run on the same sheet
\* contents and configuration whose input file has the same name without
\* directory and extension, whatever its directory, its extension and the
\* output path
C26_DeckDependsOnFileNameOnly ==
    pc = "done" =>
        \A a \in RunArgs :
            a.excel_file.name = args.excel_file.name => DeckOf(a) = output_file.slides

\* a deck of the round-trip workbook was saved from plans/roadmap.xlsx to
\* the default output path
C26_Witness ==
    /\ pc = "done"
    /\ args.excel_file.dir = "plans/"
    /\ args.output = NoOutput
    /\ output_file.path = "plans/roadmap.pptx"
    /\ Len(output_file.slides) >= 5
    /\ output_file.slides[1].title = "roadmap"

----------------------------------------------------------------------------
(* Specification of the two readers over header rows in every order: the   *)
(* sheet under study has one data row whose cells name their column, so    *)
(* the column each role was read from shows in the result                  *)

\* the cell of the data row in column k
Cell(k) == <<"c1", "c2", "c3", "c4">>[k]

\* the sequences of n different headers out of a set
RECURSIVE Arrangements(_, _)
Arrangements(headers, n) ==
    IF n = 0 THEN {<<>>}
    ELSE {Append(cols, h) : cols \in Arrangements(headers, n - 1), h \in headers}

DistinctArrangements(headers, n) ==
    {cols \in Arrangements(headers, n) :
        \A i, j \in 1..n : i # j => cols[i] # cols[j]}

\* a sheet with these headers and the one data row
CellSheet(columns) ==
    [columns |-> columns, rows |-> <<[k \in 1..Len(columns) |-> Cell(k)]>>]

ObjectivesColumnSheets ==
    {CellSheet(columns) :
        columns \in DistinctArrangements({"North star", "Key elements", "Goal", "Items"}, 2)
                      \cup DistinctArrangements({"North star", "Key elements", "Goal"}, 3)}

RoadmapColumnSheets ==
    {CellSheet(columns) :
        columns \in DistinctArrangements({"Timeline", "Phase", "Workpackage",
                                          "Work package", "Step", "Stage"}, 3)
                      \cup DistinctArrangements({"Timeline", "Phase", "Workpackage",
                                                 "Step"}, 4)}

InitReadColumns ==
    /\ pc = "read_objectives"
    /\ args = [excel_file |-> RoadmapXlsx, output |-> NoOutput]
    /\ workbook = GoodWorkbook
    /\ temp_dir = GoodTempDir
    /\ config_dir = GoodConfigDir
    /\ config_names = AllSettings
    /\ template = NoTemplate
    /\ cfg = DefaultConfig
    /\ \/ /\ objectives_sheet \in ObjectivesColumnSheets
          /\ roadmap_sheet = ScenarioRoadmap
       \/ /\ objectives_sheet = ScenarioObjectives
          /\ roadmap_sheet \in RoadmapColumnSheets
    /\ objectives_data = EmptyObjectives
    /\ roadmap_df = <<>>
    /\ slides = <<>>
    /\ output_file = NoFile
    /\ th = NoCall

NextReadColumns ==
    \/ ReadObjectives
    \/ ReadRoadmap

SpecReadColumns == InitReadColumns /\ [][NextReadColumns]_vars

\* the columns of the Roadmap sheet whose header satisfies a test
ColumnsWith(Test(_)) ==
    {k \in 1..Len(roadmap_sheet.columns) : Test(roadmap_sheet.columns[k])}

\* C27: when exactly one header of the Roadmap sheet contains "timeline",
\* one "phase" and one "workpackage" or "work package", the entry read from
\* the data row has its timeline, phase and workpackage from those three
\* columns, in whatever order the columns stand
C27_ThreeRolesAnyOrder ==
    (pc = "title"
        /\ roadmap_sheet \in RoadmapColumnSheets
        /\ Cardinality(ColumnsWith(HasTimeline)) = 1
        /\ Cardinality(ColumnsWith(HasPhase)) = 1
        /\ Cardinality(ColumnsWith(HasWorkpackage)) = 1) =>
        LET t == CHOOSE k \in ColumnsWith(HasTimeline) : TRUE
            p == CHOOSE k \in ColumnsWith(HasPhase) : TRUE
            w == CHOOSE k \in ColumnsWith(HasWorkpackage) : TRUE
        IN  roadmap_df = <<[Timeline |-> Cell(t), Phase |-> Cell(p),
                            Workpackage |-> Cell(w)]>>

\* C28: no two roles are read from one column: on an Objectives sheet with
\* two or more columns the north star and the key element of the data row
\* are different cells, and on a Roadmap sheet with three or more columns
\* the timeline, the phase and the workpackage of the entry are three
\* different cells, whichever roles were matched by name
C28_RolesNeverShareColumn ==
    /\ (pc \in {"read_roadmap", "title"} /\ objectives_sheet \in ObjectivesColumnSheets) =>
          \A i \in 1..Len(objectives_data.key_elements) :
              objectives_data.key_elements[i] # objectives_data.north_star
    /\ (pc = "title" /\ roadmap_sheet \in RoadmapColumnSheets) =>
          \A i \in 1..Len(roadmap_df) :
              /\ roadmap_df[i].Timeline # roadmap_df[i].Phase
              /\ roadmap_df[i].Timeline # roadmap_df[i].Workpackage
              /\ roadmap_df[i].Phase # roadmap_df[i].Workpackage

----------------------------------------------------------------------------
(* Specification of the roadmap slides of one timeline with one to three   *)
(* phase columns, under slide heights that leave room for nine, two or one *)
(* item per column                                                         *)

MaxPhaseRows == 3

GeometryPhases == {"Build", "Design", "Launch"}

RECURSIVE GeometryRowLists(_)
\* the rows (timeline, phase, workpackage) of the first n rows of the sheet
GeometryRowLists(n) ==
    IF n = 0 THEN {<<>>}
    ELSE {Append(rows, <<"Q1", p, WpText(n)>>) :
            rows \in GeometryRowLists(n - 1), p \in GeometryPhases}

GeometrySheets ==
    {[columns |-> <<"Timeline", "Phase", "Workpackage">>, rows |-> rows] :
        rows \in UNION {GeometryRowLists(n) : n \in 0..MaxPhaseRows}}

InitGeometry ==
    /\ pc = "roadmap"
    /\ args = [excel_file |-> RoadmapXlsx, output |-> NoOutput]
    /\ workbook = GoodWorkbook
    /\ temp_dir = GoodTempDir
    /\ config_dir = GoodConfigDir
    /\ config_names = AllSettings
    /\ template = NoTemplate
    /\ cfg \in ConfigsRoadmap
    /\ objectives_sheet = FilledObjectivesSheet
    /\ roadmap_sheet \in GeometrySheets
    /\ objectives_data = read_objectives(objectives_sheet)
    /\ roadmap_df = read_roadmap(roadmap_sheet)
    /\ slides = create_title_slide(objectives_data, excel_filename(args.excel_file))
                    \o create_objectives_slide(cfg, objectives_data)
                    \o create_timeline_overview_slide(roadmap_df)
    /\ output_file = NoFile
    /\ th = NoCall

NextGeometry == CreateRoadmapSlides \/ Save

SpecGeometry == InitGeometry /\ [][NextGeometry]_vars

\* C29: on every roadmap slide with n >= 1 phase columns, with
\* slot = usable width / n, column k (from 0) starts at
\* SIDE_MARGIN + k * slot + 0.1 in and is slot - 0.2 in wide; every column
\* lies between the side margins, consecutive columns do not overlap, and
\* every content box ends at or above SLIDE_HEIGHT - BOTTOM_MARGIN
C29_ColumnGeometry ==
    pc \in {"save", "done"} =>
        \A i \in 1..Len(slides) :
            slides[i].kind = "roadmap" =>
                LET cols == slides[i].columns
                    n == Len(cols)
                    usable == SLIDE_WIDTH - 2 * SIDE_MARGIN
                IN  /\ n >= 1
                    /\ \A c \in 1..n :
                          LET slot == usable \div n
                          IN  /\ slot * n = usable
                              /\ cols[c].x_pos = SIDE_MARGIN + (c - 1) * slot + Inches10(1)
                              /\ cols[c].box_width = slot - Inches10(2)
                              /\ cols[c].box_width > 0
                              /\ cols[c].x_pos >= SIDE_MARGIN
                              /\ cols[c].x_pos + cols[c].box_width
                                    <= SLIDE_WIDTH - SIDE_MARGIN
                              /\ c < n => cols[c].x_pos + cols[c].box_width
                                             <= cols[c + 1].x_pos
                              /\ cols[c].items # <<>> =>
                                    cols[c].y_pos_phase + cols[c].content_height
                                        <= cfg.SLIDE_HEIGHT - BOTTOM_MARGIN

\* a roadmap slide with three phase columns of one item each was built on a
\* slide 3 in high: every content box is cut to the 0.3 in left above the
\* bottom margin
C29_Witness ==
    /\ pc = "done"
    /\ cfg.SLIDE_HEIGHT = Inches10(30)
    /\ \E i \in 1..Len(slides) :
          /\ slides[i].kind = "roadmap"
          /\ Len(slides[i].columns) = 3
          /\ \A c \in 1..3 :
                /\ Len(slides[i].columns[c].items) = 1
                /\ slides[i].columns[c].content_height = Inches10(3)
                /\ slides[i].columns[c].y_pos_phase + slides[i].columns[c].content_height
                      = cfg.SLIDE_HEIGHT - BOTTOM_MARGIN

====
